---------------------------- MODULE Spec2Model ----------------------------
(***************************************************************************)
(* A model of rdoorn/tinyresolver: the TTL-aware record cache (cache.go)   *)
(* and the iterative resolution engine (resolver.go).                      *)
(*                                                                         *)
(* Strings are modelled as sequences of one-character strings so that the  *)
(* conversions of the code (strings.ToLower, dns.Fqdn, strings.Split) are  *)
(* computed and not assumed.  A domain name is such a sequence, "." being  *)
(* the label separator.  The text form of a record, rr.String(), is the    *)
(* sequence of its tab-separated fields; the rdata field is the sequence   *)
(* of its space-separated parts.                                           *)
(*                                                                         *)
(* Time is counted in ticks, TicksPerSec ticks to the second, so that the  *)
(* truncating division of cache.get is visible.                            *)
(***************************************************************************)
EXTENDS Integers, Sequences, FiniteSets, TLC

VARIABLES
    rrs,      \* cache.rrs: the entry list, each entry [rr, expires]
    now,      \* the wall clock, in ticks
    w,        \* cache.w: "free" or the thread holding the lock
    cth,      \* the threads that call the cache directly: pc and locals
    hist,     \* history: the inserts made so far, each [id, at, ttl, old]:
              \* the record without TTL, the time, the TTL given, and the
              \* expiry of the equal entry found (-1: none)
    ops,      \* history: the number of addRR and get calls started
    qm,       \* queryMultiple: the collector's pc, its arguments and locals
    tasks,    \* the querySingleChan goroutines queryMultiple launched
    ctx,      \* the contexts: done (ctx.Done() closed), done2 (ctx2.Done())
    qh,       \* history of queryMultiple: replies received, value returned
    crashed,  \* a goroutine panicked: the process is gone
    stack,    \* the engine: call frames of the goroutine running Resolve
    rv,       \* the engine: the value the last returned call gave
    qs,       \* the per-resolution loop counters, by qname_qtype
    eh,       \* history of the engine: for the running Resolve the calls of
              \* queryWithCache by pair (inv), those past the loop counter
              \* (passed), the fan-outs and exchanges; the results (log)
    qloc,     \* the mutex qloc of the loop counters: 0 or its holder
    resolver  \* the Resolver: its debug flag, and its mutex m: 0 or its holder

cvars == <<rrs, now, w, cth, hist, ops>>
qvars == <<qm, tasks, ctx, qh, crashed>>
evars == <<stack, rv, qs, eh, qloc, resolver>>
vars == <<rrs, now, w, cth, hist, ops, qm, tasks, ctx, qh, crashed, stack, rv, qs,
          eh, qloc, resolver>>

----------------------------------------------------------------------------
(* Bounds of the model *)

TicksPerSec == 2
MaxNow == 3
MaxTTL == 2
MaxAdds == 2
MaxGets == 1

----------------------------------------------------------------------------
(* Strings and names *)

Lower(c) ==
    CASE c = "A" -> "a"
      [] c = "B" -> "b"
      [] c = "R" -> "r"
      [] c = "X" -> "x"
      [] c = "Y" -> "y"
      [] c = "N" -> "n"
      [] OTHER -> c

\* mutant: the letters are left as they are
ToLower_AsIs(s) == s

\* strings.ToLower
ToLower(s) == [i \in DOMAIN s |-> Lower(s[i])]

Fqdn(s) == IF Len(s) > 0 /\ s[Len(s)] = "." THEN s ELSE s \o <<".">>

toLowerFQDN(name) == Fqdn(ToLower(name))

----------------------------------------------------------------------------
(* Records *)

TypeA == 1
TypeNS == 2
TypeCNAME == 5
TypeSOA == 6
TypeMX == 15

StringToType(qtype) ==
    CASE qtype = "A" -> TypeA
      [] qtype = "NS" -> TypeNS
      [] qtype = "CNAME" -> TypeCNAME
      [] qtype = "SOA" -> TypeSOA
      [] qtype = "MX" -> TypeMX
      [] OTHER -> 0

TypeToString(t) ==
    CASE t = TypeA -> "A"
      [] t = TypeNS -> "NS"
      [] t = TypeCNAME -> "CNAME"
      [] t = TypeSOA -> "SOA"
      [] t = TypeMX -> "MX"
      [] OTHER -> "TYPE0"

RR(name, rrtype, ttl, rdata) ==
    [name |-> name, rrtype |-> rrtype, ttl |-> ttl, rdata |-> rdata]

\* rr.String() split on "\t": name, ttl, class, type, rdata
RRFields(rr) == <<rr.name, rr.ttl, "IN", TypeToString(rr.rrtype), rr.rdata>>

removeSliceString(slice, s) ==
    SubSeq(slice, 1, s) \o SubSeq(slice, s + 2, Len(slice))

\* mutant: the comparison keeps the TTL field
WithoutTTL_KeepsTTL(rr) == RRFields(rr)

\* the record without its TTL, as addRR compares it
WithoutTTL(rr) == removeSliceString(RRFields(rr), 1)

\* mutant: the record is stored as it is given
Canonicalize_AsGiven(rr) == rr

\* addRR's canonicalisation of the record it is given
Canonicalize(rr) ==
    LET r1 == [rr EXCEPT !.name = toLowerFQDN(rr.name)]
    IN  IF r1.rrtype = TypeNS
        THEN [r1 EXCEPT !.rdata = <<toLowerFQDN(r1.rdata[1])>>]
        ELSE r1

----------------------------------------------------------------------------
(* cache.addRR and cache.get as functions of the entry list *)

Max(a, b) == IF a >= b THEN a ELSE b

\* now.Add(time.Duration(ttl) * time.Second)
ExpiryOf(t, ttl) == t + ttl * TicksPerSec

\* mutant: the loop of addRR finds no equal entry
ScanFind_Nothing(list, rr) == 0

\* the loop of addRR: the index of the first entry equal without TTL, or 0
ScanFind(list, rr) ==
    LET hits == {i \in DOMAIN list : WithoutTTL(rr) = WithoutTTL(list[i].rr)}
    IN  IF hits = {} THEN 0 ELSE CHOOSE i \in hits : \A j \in hits : i <= j

\* mutant: the expiry of the equal entry is overwritten unconditionally
WriteEntry_Overwrites(list, t, rr, found) ==
    IF found # 0
    THEN [list EXCEPT ![found].expires = ExpiryOf(t, rr.ttl)]
    ELSE Append(list, [rr |-> rr, expires |-> ExpiryOf(t, rr.ttl)])

\* what addRR does once its scan ended with `found` (0: no equal entry)
WriteEntry(list, t, rr, found) ==
    IF found # 0
    THEN IF ExpiryOf(t, rr.ttl) > list[found].expires
         THEN [list EXCEPT ![found].expires = ExpiryOf(t, rr.ttl)]
         ELSE list
    ELSE Append(list, [rr |-> rr, expires |-> ExpiryOf(t, rr.ttl)])

\* addRR as one step (the lock makes it one)
AddRR(list, t, rr) ==
    LET c == Canonicalize(rr) IN WriteEntry(list, t, c, ScanFind(list, c))

RECURSIVE AddAll(_, _, _)
AddAll(list, t, todo) ==
    IF todo = <<>> THEN list
    ELSE AddAll(AddRR(list, t, Head(todo)), t, Tail(todo))

\* mutant: the scan does not look at the expiry
Selected_IgnoresExpiry(e, t, qname, dtype) ==
    e.rr.rrtype = dtype /\ e.rr.name = qname

\* whether the scan of get takes entry e
Selected(e, t, qname, dtype) ==
    e.rr.rrtype = dtype /\ e.rr.name = qname /\ t < e.expires

\* mutant: the copy keeps the TTL the record was inserted with
RelativeCopy_StoredTTL(e, t) == e.rr

\* the copy get returns for entry e: the TTL is what is left, in whole seconds
RelativeCopy(e, t) == [e.rr EXCEPT !.ttl = (e.expires - t) \div TicksPerSec]

\* the scan of get, under the lock: qname is canonical already
ScanGet(list, t, qname, dtype) ==
    LET sel == SelectSeq(list, LAMBDA e : Selected(e, t, qname, dtype))
    IN  [i \in DOMAIN sel |-> RelativeCopy(sel[i], t)]

RECURSIVE FlatMap(_, _)
FlatMap(Op(_), s) ==
    IF s = <<>> THEN <<>> ELSE Op(Head(s)) \o FlatMap(Op, Tail(s))

\* mutant: findNS leaves the SOA records out
findNS_NoSOA(list) ==
    FlatMap(LAMBDA rr : IF rr.rrtype = TypeNS THEN <<rr.rdata[1]>> ELSE <<>>, list)

\* findNS: the targets of the NS records and the MNAMEs of the SOA records
findNS(list) ==
    FlatMap(LAMBDA rr : IF rr.rrtype = TypeNS \/ rr.rrtype = TypeSOA
                        THEN <<rr.rdata[1]>> ELSE <<>>, list)

findMX(list) ==
    FlatMap(LAMBDA rr : IF rr.rrtype = TypeMX THEN <<rr.rdata[2]>> ELSE <<>>, list)

findA(list) ==
    FlatMap(LAMBDA rr : IF rr.rrtype = TypeA THEN <<rr.rdata[1]>> ELSE <<>>, list)

\* mutant: no alias is found
findCNAME_None(list) == <<>>

findCNAME(list) ==
    FlatMap(LAMBDA rr : IF rr.rrtype = TypeCNAME THEN <<rr.rdata[1]>> ELSE <<>>, list)

\* mutant: no name is looked up
GlueTargets_None(qtype, answer) == <<>>

\* the names whose A records get adds to the additional section
GlueTargets(qtype, answer) ==
    CASE qtype = "MX" -> findMX(answer)
      [] qtype = "NS" -> findNS(answer)
      [] qtype = "CNAME" -> findCNAME(answer)
      [] OTHER -> <<>>

----------------------------------------------------------------------------
(* The cache under concurrent callers *)

IP1 == <<"1.1.1.1">>
IP2 == <<"2.2.2.2">>
IPR == <<"9.9.9.9">>

\* The TTL of the root hints (3600000 in the hints file)
HintTTL == 3600000

\* The embedded root hints, cut to one root server: its NS and its A record
RootHints ==
    << RR(<<".">>, TypeNS, HintTTL, <<<<"r", ".">>>>),
       RR(<<"r", ".">>, TypeA, HintTTL, <<IPR>>) >>

\* newCache: addRR of every record of the hints
newCache == AddAll(<<>>, 0, RootHints)

NilMsg == [nil |-> TRUE, Answer |-> <<>>, Ns |-> <<>>, Extra |-> <<>>]

Msg(answer, ns, extra) ==
    [nil |-> FALSE, Answer |-> answer, Ns |-> ns, Extra |-> extra]

\* mutant: addMsg leaves the answer section out
MsgRRs_NoAnswer(m) == IF m.nil THEN <<>> ELSE m.Ns \o m.Extra

\* mutant: addMsg leaves the additional section out
MsgRRs_NoExtra(m) == IF m.nil THEN <<>> ELSE m.Ns \o m.Answer

\* the records addMsg inserts, in its order
MsgRRs(m) == IF m.nil THEN <<>> ELSE m.Ns \o m.Answer \o m.Extra

addMsg(list, t, m) == AddAll(list, t, MsgRRs(m))

\* history: the record of an insert without its TTL, its names canonical
InsertId(rr) ==
    << toLowerFQDN(rr.name), "IN", TypeToString(rr.rrtype),
       IF rr.rrtype = TypeNS THEN <<toLowerFQDN(rr.rdata[1])>> ELSE rr.rdata >>

CThreads == {"c1", "c2"}

\* the records the callers insert
CacheRRs ==
    { RR(<<"a", ".">>, TypeA, t, <<IP1>>) : t \in 0..MaxTTL }
    \cup { RR(<<"A">>, TypeA, 1, <<IP1>>), RR(<<"a", ".">>, TypeA, 1, <<IP2>>) }

CacheMsgs ==
    { NilMsg,
      Msg(<< RR(<<"a", ".">>, TypeA, 1, <<IP2>>) >>, <<>>,
          << RR(<<"A", ".">>, TypeA, MaxTTL, <<IP1>>) >>) }

CacheQueries ==
    { << <<"a", ".">>, "A" >>, << <<"A">>, "A" >>,
      << <<"a", ".">>, "NS" >>, << <<".">>, "NS" >> }

CIdle ==
    [pc |-> "idle", todo |-> <<>>, rr |-> <<>>, found |-> 0,
     rawq |-> <<>>, qname |-> <<>>, qtype |-> "", now0 |-> 0, seen |-> 0, after |-> 0,
     ans |-> <<>>, extra |-> <<>>, targets |-> <<>>, nq |-> <<>>, nnow |-> 0]

\* a reply as a task sends it: queryAnswer{msg, err, server}
queryAnswer(msg, err, server) == [msg |-> msg, err |-> err, server |-> server]

NoAnswer == queryAnswer("nil", "nil", "")

NoRet == [kind |-> "none", msg |-> "nil", err |-> "nil"]

\* no queryMultiple is running
QMIdle ==
    /\ qm = [pc |-> "idle", ns |-> <<>>, qtype |-> "", count |-> 0,
             answer |-> NoAnswer]
    /\ tasks = <<>>
    /\ ctx = [done |-> FALSE, done2 |-> FALSE]
    /\ qh = [recvd |-> <<>>, ret |-> NoRet, firedWaiting |-> FALSE]
    /\ crashed = FALSE

\* no Resolve is running
EngineIdle ==
    /\ stack = <<>>
    /\ rv = [msg |-> NilMsg, err |-> "nil"]
    /\ qs = <<>>
    /\ qloc = 0
    /\ resolver = [debug |-> FALSE, m |-> 0]
    /\ eh = [n |-> 0, inv |-> <<>>, passed |-> <<>>, fan |-> 0, netq |-> 0,
             seen |-> {}, idle |-> FALSE, prev |-> <<>>, log |-> <<>>]

\* the cache as newCache leaves it, nobody calling it
CacheIdle ==
    /\ rrs = newCache
    /\ now = 0
    /\ w = "free"
    /\ cth = [t \in CThreads |-> CIdle]
    /\ hist = <<>>
    /\ ops = [adds |-> 0, gets |-> 0]

Init ==
    /\ rrs = newCache
    /\ now = 0
    /\ w = "free"
    /\ cth = [t \in CThreads |-> CIdle]
    /\ hist = [i \in DOMAIN RootHints |->
                 [id |-> InsertId(RootHints[i]), at |-> 0,
                  ttl |-> RootHints[i].ttl, old |-> -1]]
    /\ ops = [adds |-> 0, gets |-> 0]
    /\ QMIdle
    /\ EngineIdle

\* time passes
Tick ==
    /\ now < MaxNow
    /\ now' = now + 1
    /\ UNCHANGED <<rrs, w, cth, hist, ops, qvars, evars>>

\* a caller calls addRR(rr)
CallAddRR(t, rr) ==
    /\ cth[t].pc = "idle"
    /\ ops.adds < MaxAdds
    /\ cth' = [cth EXCEPT ![t] = [CIdle EXCEPT !.pc = "add_lock", !.todo = <<rr>>]]
    /\ ops' = [ops EXCEPT !.adds = @ + 1]
    /\ UNCHANGED <<rrs, now, w, hist, qvars, evars>>

\* a caller calls addMsg(m): the records of Ns, Answer, Extra in this order
CallAddMsg(t, m) ==
    LET todo == MsgRRs(m) IN
    /\ cth[t].pc = "idle"
    /\ ops.adds + Len(todo) <= MaxAdds
    /\ cth' = [cth EXCEPT ![t] =
                 IF todo = <<>> THEN CIdle
                 ELSE [CIdle EXCEPT !.pc = "add_lock", !.todo = todo]]
    /\ ops' = [ops EXCEPT !.adds = @ + Len(todo)]
    /\ UNCHANGED <<rrs, now, w, hist, qvars, evars>>

\* c.w.Lock(); addRR canonicalises the record and looks for an equal entry
AddScan(t) ==
    LET c == Canonicalize(Head(cth[t].todo)) IN
    /\ cth[t].pc = "add_lock"
    /\ w = "free"
    /\ w' = t
    /\ cth' = [cth EXCEPT ![t].pc = "add_write", ![t].rr = c,
                          ![t].found = ScanFind(rrs, c)]
    /\ UNCHANGED <<rrs, now, hist, ops, qvars, evars>>

\* addRR extends the equal entry or appends a new one; the deferred
\* c.w.Unlock(); addMsg goes on with its next record
AddWrite(t) ==
    LET f == cth[t].found
        r == cth[t].rr
        rest == Tail(cth[t].todo) IN
    /\ cth[t].pc = "add_write"
    /\ rrs' = WriteEntry(rrs, now, r, f)
    /\ hist' = Append(hist, [id |-> InsertId(Head(cth[t].todo)), at |-> now,
                              ttl |-> r.ttl,
                              old |-> IF f # 0 /\ f <= Len(rrs)
                                      THEN rrs[f].expires ELSE -1])
    /\ w' = "free"
    /\ cth' = [cth EXCEPT ![t] =
                 IF rest = <<>>
                 THEN [CIdle EXCEPT !.after = Len(hist) + 1]
                 ELSE [CIdle EXCEPT !.pc = "add_lock", !.todo = rest]]
    /\ UNCHANGED <<now, ops, qvars, evars>>

\* a caller calls get(qname, qtype): the clock is read before the lock
CallGet(t, qname, qtype) ==
    /\ cth[t].pc = "idle"
    /\ ops.gets < MaxGets
    /\ cth' = [cth EXCEPT ![t] =
                 [CIdle EXCEPT !.pc = "get_lock", !.rawq = qname,
                               !.qname = toLowerFQDN(qname),
                               !.qtype = qtype, !.now0 = now,
                               !.seen = Len(hist), !.after = cth[t].after]]
    /\ ops' = [ops EXCEPT !.gets = @ + 1]
    /\ UNCHANGED <<rrs, now, w, hist, qvars, evars>>

\* mutant: the scan writes the relative TTL into the stored record
GetScan_WritesTTL(t) ==
    /\ cth[t].pc = "get_lock"
    /\ w = "free"
    /\ w' = t
    /\ cth' = [cth EXCEPT ![t].pc = "get_unlock",
                          ![t].ans = ScanGet(rrs, cth[t].now0, cth[t].qname,
                                             StringToType(cth[t].qtype))]
    /\ rrs' = [i \in DOMAIN rrs |->
                 IF Selected(rrs[i], cth[t].now0, cth[t].qname,
                             StringToType(cth[t].qtype))
                 THEN [rrs[i] EXCEPT !.rr = RelativeCopy(rrs[i], cth[t].now0)]
                 ELSE rrs[i]]
    /\ UNCHANGED <<now, hist, ops, qvars, evars>>

\* c.w.Lock() and the scan of the entry list
GetScan(t) ==
    /\ cth[t].pc = "get_lock"
    /\ w = "free"
    /\ w' = t
    /\ cth' = [cth EXCEPT ![t].pc = "get_unlock",
                          ![t].ans = ScanGet(rrs, cth[t].now0, cth[t].qname,
                                             StringToType(cth[t].qtype))]
    /\ UNCHANGED <<rrs, now, hist, ops, qvars, evars>>

\* mutant: get keeps the lock while it looks up the targets
GetUnlock_KeepsLock(t) ==
    LET tg == IF cth[t].ans = <<>> THEN <<>>
              ELSE GlueTargets(cth[t].qtype, cth[t].ans) IN
    /\ cth[t].pc = "get_unlock"
    /\ w' = IF tg = <<>> THEN "free" ELSE t
    /\ cth' = [cth EXCEPT ![t].pc = IF tg = <<>> THEN "got" ELSE "glue_now",
                          ![t].targets = tg]
    /\ UNCHANGED <<rrs, now, hist, ops, qvars, evars>>

\* c.w.Unlock(); an empty answer returns, otherwise the glue targets follow
GetUnlock(t) ==
    LET tg == IF cth[t].ans = <<>> THEN <<>>
              ELSE GlueTargets(cth[t].qtype, cth[t].ans) IN
    /\ cth[t].pc = "get_unlock"
    /\ w' = "free"
    /\ cth' = [cth EXCEPT ![t].pc = IF tg = <<>> THEN "got" ELSE "glue_now",
                          ![t].targets = tg]
    /\ UNCHANGED <<rrs, now, hist, ops, qvars, evars>>

\* the nested c.get(target, "A"): its own clock reading
GlueNow(t) ==
    /\ cth[t].pc = "glue_now"
    /\ cth' = [cth EXCEPT ![t].pc = "glue_lock", ![t].nnow = now,
                          ![t].nq = toLowerFQDN(Head(cth[t].targets))]
    /\ UNCHANGED <<rrs, now, w, hist, ops, qvars, evars>>

\* the nested lock, scan and unlock; its answer is appended to Extra
GlueScan(t) ==
    LET rest == Tail(cth[t].targets) IN
    /\ cth[t].pc = "glue_lock"
    /\ w = "free"
    /\ cth' = [cth EXCEPT ![t].pc = IF rest = <<>> THEN "got" ELSE "glue_now",
                          ![t].targets = rest,
                          ![t].extra = @ \o ScanGet(rrs, cth[t].nnow, cth[t].nq, TypeA)]
    /\ UNCHANGED <<rrs, now, w, hist, ops, qvars, evars>>

\* get returns its message to the caller
GetReturn(t) ==
    /\ cth[t].pc = "got"
    /\ cth' = [cth EXCEPT ![t] = CIdle]
    /\ UNCHANGED <<rrs, now, w, hist, ops, qvars, evars>>

Next ==
    \/ Tick
    \/ \E t \in CThreads :
          \/ \E rr \in CacheRRs : CallAddRR(t, rr)
          \/ \E m \in CacheMsgs : CallAddMsg(t, m)
          \/ AddScan(t) \/ AddWrite(t)
          \/ \E q \in CacheQueries : CallGet(t, q[1], q[2])
          \/ GetScan(t) \/ GetUnlock(t)
          \/ GlueNow(t) \/ GlueScan(t)
          \/ GetReturn(t)

Spec == Init /\ [][Next]_vars

----------------------------------------------------------------------------
(* The cache: claims *)

\* the identity of a record: owner name, type, rdata
Identity(rr) == <<rr.name, rr.rrtype, rr.rdata>>

\* the identity of the record of an insert of the history
EventIdentity(e) == <<e.id[1], StringToType(e.id[3]), e.id[4]>>

\* the insert e is the only one of its identity
InsertedOnce(k) ==
    \A j \in DOMAIN hist : j # k => hist[j].id # hist[k].id

\* C1: the cache never holds two entries equal on {name, type, rdata},
\* whatever the TTLs, under any interleaving of addRR and addMsg calls and
\* after the seeding with the root hints.
C1_NoDuplicateIdentity ==
    \A i, j \in DOMAIN rrs :
        i # j => Identity(rrs[i].rr) # Identity(rrs[j].rr)

\* two inserts of one identity, the names written in different letter case
\* and the TTLs different, have been made and the second found the entry of
\* the first
C1_Witness ==
    \E i, j \in DOMAIN hist :
        /\ i < j /\ hist[i].id = hist[j].id /\ hist[i].ttl # hist[j].ttl
        /\ hist[j].old # -1
        /\ Cardinality({k \in DOMAIN rrs : InsertId(rrs[k].rr) = hist[i].id}) = 1

\* C2: an insert that finds an equal entry leaves it with the later of its
\* old expiry and now + ttl; no step ever lowers the expiry of an entry or
\* removes an entry.
C2_ExpiryIsMax ==
    [][ /\ Len(rrs') >= Len(rrs)
        /\ \A i \in DOMAIN rrs :
              /\ rrs'[i].expires >= rrs[i].expires
              /\ Identity(rrs'[i].rr) = Identity(rrs[i].rr)
        /\ \A t \in CThreads :
              (cth[t].pc = "add_write" /\ cth'[t] # cth[t] /\ cth[t].found # 0)
              => rrs'[cth[t].found].expires =
                   Max(rrs[cth[t].found].expires,
                       now + cth[t].rr.ttl * TicksPerSec) ]_vars

\* an insert found an equal entry that expires later than now + ttl
C2_Witness ==
    \E k \in DOMAIN hist :
        /\ hist[k].old # -1
        /\ hist[k].at + hist[k].ttl * TicksPerSec < hist[k].old

\* the entries get(name, type) has to return at its clock reading t
Wanted(name, qtype, t) ==
    { i \in DOMAIN rrs :
        /\ rrs[i].rr.name = toLowerFQDN(name)
        /\ TypeToString(rrs[i].rr.rrtype) = qtype
        /\ t < rrs[i].expires }

\* C3: the answer section of get(name, type) holds exactly one record for
\* each entry of that canonical name and type that expires after the clock
\* reading of get, and nothing else.
C3_GetReturnsUnexpiredMatches ==
    \A t \in CThreads :
        cth[t].pc = "get_unlock" =>
            LET want == Wanted(cth[t].rawq, cth[t].qtype, cth[t].now0)
                ans == cth[t].ans
            IN  /\ Len(ans) = Cardinality(want)
                /\ \A i \in want : \E k \in DOMAIN ans :
                      Identity(ans[k]) = Identity(rrs[i].rr)
                /\ \A k \in DOMAIN ans : \E i \in want :
                      Identity(ans[k]) = Identity(rrs[i].rr)

\* a get returned a record and left out an expired entry of the same name
\* and type
C3_Witness ==
    \E t \in CThreads :
        /\ cth[t].pc = "get_unlock"
        /\ cth[t].ans # <<>>
        /\ \E i \in DOMAIN rrs :
              /\ rrs[i].rr.name = cth[t].qname
              /\ rrs[i].rr.rrtype = StringToType(cth[t].qtype)
              /\ rrs[i].expires <= cth[t].now0

\* the get of thread t has returned, was called right after the insert
\* hist[k] by the same thread for its name and type, no time having passed
GotRightAfter(t, k) ==
    /\ cth[t].pc = "got"
    /\ cth[t].after = k
    /\ toLowerFQDN(cth[t].rawq) = hist[k].id[1]
    /\ cth[t].qtype = hist[k].id[3]
    /\ cth[t].now0 = hist[k].at

\* C4 as claimed: for every TTL >= 0, the get right after an insert returns
\* the record with a TTL in [0, ttl].
C4_AsClaimed ==
    \A t \in CThreads : \A k \in DOMAIN hist :
        GotRightAfter(t, k) =>
            \E j \in DOMAIN cth[t].ans :
                /\ Identity(cth[t].ans[j]) = EventIdentity(hist[k])
                /\ cth[t].ans[j].ttl \in 0..hist[k].ttl

\* C4 amended: for every TTL >= 1, the get right after an insert returns the
\* record, with a TTL >= 0 that is at most the inserted TTL when no other
\* insert of the same identity was made.
C4_GetAfterInsert ==
    \A t \in CThreads : \A k \in DOMAIN hist :
        (GotRightAfter(t, k) /\ hist[k].ttl >= 1) =>
            \E j \in DOMAIN cth[t].ans :
                /\ Identity(cth[t].ans[j]) = EventIdentity(hist[k])
                /\ cth[t].ans[j].ttl >= 0
                /\ InsertedOnce(k) => cth[t].ans[j].ttl <= hist[k].ttl

\* a get right after the insert of a record given in upper case and without
\* the trailing dot, and one right after an insert that found a later expiry
C4_Witness ==
    \E t \in CThreads : \E k \in DOMAIN hist :
        /\ GotRightAfter(t, k)
        /\ hist[k].ttl >= 1
        /\ \/ cth[t].rawq # cth[t].qname
           \/ hist[k].old > hist[k].at + hist[k].ttl * TicksPerSec

\* the get of thread t has returned, the insert hist[k] was complete when
\* it was called, is of the name and type asked and the only one of its
\* identity
GotInsertedOnce(t, k) ==
    /\ cth[t].pc = "got"
    /\ k <= cth[t].seen
    /\ InsertedOnce(k)
    /\ cth[t].qname = hist[k].id[1]
    /\ cth[t].qtype = hist[k].id[3]

\* the TTL left of insert hist[k] at time t1, rounded down to whole seconds
TTLLeft(k, t1) ==
    (hist[k].ttl * TicksPerSec - (t1 - hist[k].at)) \div TicksPerSec

\* C5 as claimed: a record inserted once at t0 with TTL T is returned by
\* every get at t1 in the closed interval [t0, t0+T], with TTL T - (t1 - t0)
\* rounded down.
C5_AsClaimed ==
    \A t \in CThreads : \A k \in DOMAIN hist :
        (/\ GotInsertedOnce(t, k)
         /\ cth[t].now0 >= hist[k].at
         /\ cth[t].now0 <= hist[k].at + hist[k].ttl * TicksPerSec) =>
            \E j \in DOMAIN cth[t].ans :
                /\ Identity(cth[t].ans[j]) = EventIdentity(hist[k])
                /\ cth[t].ans[j].ttl = TTLLeft(k, cth[t].now0)

\* C5 amended: the same for t1 in the half-open interval [t0, t0+T); at
\* t1 = t0+T the record is no longer returned.
C5_TTLDecay ==
    \A t \in CThreads : \A k \in DOMAIN hist :
        /\ (/\ GotInsertedOnce(t, k)
             /\ cth[t].now0 >= hist[k].at
             /\ cth[t].now0 < hist[k].at + hist[k].ttl * TicksPerSec) =>
                \E j \in DOMAIN cth[t].ans :
                    /\ Identity(cth[t].ans[j]) = EventIdentity(hist[k])
                    /\ cth[t].ans[j].ttl = TTLLeft(k, cth[t].now0)
        /\ (/\ GotInsertedOnce(t, k)
             /\ cth[t].now0 >= hist[k].at + hist[k].ttl * TicksPerSec) =>
                \A j \in DOMAIN cth[t].ans :
                    Identity(cth[t].ans[j]) # EventIdentity(hist[k])

\* a get a fraction of a second after the insert of a record made by a
\* caller, which returns it with the TTL rounded down
C5_Witness ==
    \E t \in CThreads : \E k \in DOMAIN hist :
        /\ GotInsertedOnce(t, k)
        /\ k > Len(RootHints)
        /\ (cth[t].now0 - hist[k].at) % TicksPerSec # 0
        /\ cth[t].now0 < hist[k].at + hist[k].ttl * TicksPerSec
        /\ cth[t].ans # <<>>

----------------------------------------------------------------------------
(* cache.get and the records of the targets *)

\* the records put into the cache: an NS, an MX and a CNAME record of a.
\* that name n., the CNAME record in two spellings of its target, and A
\* records of n. and of a.
GlueRRs ==
    { RR(<<"a", ".">>, TypeNS, MaxTTL, << <<"n", ".">> >>),
      RR(<<"a", ".">>, TypeMX, MaxTTL, << <<"1", "0">>, <<"n", ".">> >>),
      RR(<<"a", ".">>, TypeCNAME, MaxTTL, << <<"N", ".">> >>),
      RR(<<"a", ".">>, TypeCNAME, MaxTTL, << <<"n", ".">> >>),
      RR(<<"n", ".">>, TypeA, 1, <<IP1>>),
      RR(<<"n", ".">>, TypeA, MaxTTL, <<IP2>>),
      RR(<<"a", ".">>, TypeA, MaxTTL, <<IP1>>) }

GlueQueries ==
    { << <<"a", ".">>, "NS" >>, << <<"a", ".">>, "MX" >>,
      << <<"a", ".">>, "CNAME" >>, << <<"a", ".">>, "A" >>,
      << <<".">>, "NS" >> }

NextGlue ==
    \/ Tick
    \/ \E t \in CThreads :
          \/ \E rr \in GlueRRs : CallAddRR(t, rr)
          \/ AddScan(t) \/ AddWrite(t)
          \/ \E q \in GlueQueries : CallGet(t, q[1], q[2])
          \/ GetScan(t) \/ GetUnlock(t)
          \/ GlueNow(t) \/ GlueScan(t)
          \/ GetReturn(t)

SpecGlue == Init /\ [][NextGlue]_vars

\* the canonical names that the records of an answer name
TargetNames(ans) ==
    { toLowerFQDN(IF ans[k].rrtype = TypeMX THEN ans[k].rdata[2]
                  ELSE ans[k].rdata[1]) : k \in DOMAIN ans }

\* C19: when get(name, type) returns, for a type among NS, MX and CNAME its
\* additional section holds nothing but A records that are cached for the
\* names its answer names and were unexpired when get was called, and it
\* holds every such record that was cached before the call and is still
\* unexpired; for any other type the additional section is empty.
C19_GlueOfTargets ==
    \A t \in CThreads :
        cth[t].pc = "got" =>
            LET c == cth[t]
                tn == TargetNames(c.ans)
            IN  IF c.qtype \in {"NS", "MX", "CNAME"}
                THEN /\ \A k \in DOMAIN c.extra :
                          /\ c.extra[k].rrtype = TypeA
                          /\ c.extra[k].name \in tn
                          /\ \E i \in DOMAIN rrs :
                                /\ Identity(rrs[i].rr) = Identity(c.extra[k])
                                /\ rrs[i].expires > c.now0
                     /\ \A k \in 1..c.seen :
                          (/\ hist[k].id[3] = "A"
                           /\ hist[k].id[1] \in tn
                           /\ hist[k].at + hist[k].ttl * TicksPerSec > now)
                          => \E j \in DOMAIN c.extra :
                                InsertId(c.extra[j]) = hist[k].id
                ELSE c.extra = <<>>

\* C19 witness: a get for an MX or a CNAME record returns with the A record
\* of the target in its additional section, the clock having advanced
\* during the call
C19_Witness ==
    \E t \in CThreads :
        /\ cth[t].pc = "got"
        /\ cth[t].qtype \in {"MX", "CNAME"}
        /\ cth[t].extra # <<>>
        /\ now > cth[t].now0

----------------------------------------------------------------------------
(* queryMultiple and its querySingleChan goroutines                        *)
(*                                                                         *)
(* The reply channel qa is unbuffered: a send and a receive meet.  A       *)
(* goroutine that finds no case of its select ready parks; the first       *)
(* channel operation that then becomes possible wakes it with that case.   *)
(* The deadline of ctx2 is later than that of ctx, so ctx2 is done when    *)
(* ctx's cancellation reaches it, or when queryMultiple returns.  The      *)
(* nested lookups and the exchange of querySingle are one step here, with  *)
(* either outcome; the replies are told apart by their server.             *)

MaxNameservers == 4

MaxNsLen == 2

ServerNames == <<"s1", "s2", "s3", "s4", "s5">>

Min(a, b) == IF a <= b THEN a ELSE b

\* the nameserver lists queryMultiple is given
NsLists == { SubSeq(ServerNames, 1, n) : n \in 1..Min(MaxNsLen, Len(ServerNames)) }

\* the orders the shuffle can leave n nameservers in
Shuffles(n) ==
    { p \in [1..n -> 1..n] : \A i, j \in 1..n : p[i] = p[j] => i = j }

DeadlineExceeded == [kind |-> "ctx", msg |-> "nil", err |-> "deadline"]

\* mutant: the collector returns whatever reply comes first
Accepts_AnyReply(answer, count) == TRUE

\* the test of the collector on a reply: answer.err == nil || count == 0
Accepts(answer, count) == answer.err = "nil" \/ count = 0

InitQM ==
    /\ CacheIdle
    /\ EngineIdle
    /\ qm \in { [pc |-> "start", ns |-> l, qtype |-> t, count |-> 0,
                 answer |-> NoAnswer] : l \in NsLists, t \in {"A", "NS"} }
    /\ tasks = <<>>
    /\ ctx = [done |-> FALSE, done2 |-> FALSE]
    /\ qh = [recvd |-> <<>>, ret |-> NoRet, firedWaiting |-> FALSE]
    /\ crashed = FALSE

\* mutant: the senders do not look at ctx2.Done()
WakeSenders_None(ts) == ts

\* the tasks parked in their send are woken by ctx2.Done() and return
WakeSenders(ts) ==
    [t \in DOMAIN ts |-> IF ts[t].pc = "parked" THEN [ts[t] EXCEPT !.pc = "done"] ELSE ts[t]]

\* queryMultiple up to its loop: the shuffle, and one goroutine for each of
\* the first MaxNameservers nameservers
queryMultiple(p) ==
    LET n == Min(MaxNameservers, Len(qm.ns)) IN
    /\ ~crashed
    /\ qm.pc = "start"
    /\ tasks' = [i \in 1..n |->
                   [pc |-> "query", ns |-> qm.ns[p[i]], answer |-> NoAnswer]]
    /\ qm' = [qm EXCEPT !.pc = "select", !.count = n,
                        !.ns = [i \in DOMAIN qm.ns |-> qm.ns[p[i]]]]
    /\ UNCHANGED <<ctx, qh, crashed, cvars, evars>>

\* the send of task t meets the receive of the collector: count--
Rendezvous(t) ==
    /\ qm' = [qm EXCEPT !.pc = "recv", !.count = @ - 1,
                        !.answer = tasks[t].answer]
    /\ tasks' = [tasks EXCEPT ![t].pc = "done"]
    /\ qh' = [qh EXCEPT !.recvd = Append(@, tasks[t].answer)]
    /\ UNCHANGED <<ctx, crashed>>

\* the collector comes to its select: a waiting sender or a closed
\* ctx.Done() is taken, either if both are there; otherwise it parks
QMSelect ==
    /\ ~crashed
    /\ qm.pc = "select"
    /\ \/ \E t \in DOMAIN tasks : tasks[t].pc = "parked" /\ Rendezvous(t)
       \/ /\ ctx.done
          /\ qm' = [qm EXCEPT !.pc = "ctx"]
          /\ UNCHANGED <<tasks, ctx, qh, crashed>>
       \/ /\ ~ctx.done
          /\ \A t \in DOMAIN tasks : tasks[t].pc # "parked"
          /\ qm' = [qm EXCEPT !.pc = "parked"]
          /\ UNCHANGED <<tasks, ctx, qh, crashed>>
    /\ UNCHANGED <<cvars, evars>>

\* queryMultiple returns: the deferred cancel() closes ctx2.Done()
QMReturn(r) ==
    /\ qm' = [qm EXCEPT !.pc = "returned"]
    /\ qh' = [qh EXCEPT !.ret = r]
    /\ ctx' = [ctx EXCEPT !.done2 = TRUE]
    /\ tasks' = WakeSenders(tasks)
    /\ UNCHANGED <<crashed, cvars, evars>>

\* the collector has a reply: it returns it or goes on with its loop
QMDecide ==
    /\ ~crashed
    /\ qm.pc = "recv"
    /\ IF Accepts(qm.answer, qm.count)
       THEN QMReturn([kind |-> "reply", msg |-> qm.answer.msg, err |-> qm.answer.err])
       ELSE /\ qm' = [qm EXCEPT !.pc = "select"]
            /\ UNCHANGED <<tasks, ctx, qh, crashed, cvars, evars>>

\* the branch of ctx.Done(): return nil, ctx.Err()
QMDone ==
    /\ ~crashed
    /\ qm.pc = "ctx"
    /\ QMReturn(DeadlineExceeded)

\* the deadline of the resolution fires: ctx.Done() is closed, and a
\* collector parked in its select is woken with that case
Fire ==
    /\ ~crashed
    /\ ~ctx.done
    /\ qm.pc \in {"select", "parked", "recv"}
    /\ ctx' = [ctx EXCEPT !.done = TRUE]
    /\ IF qm.pc = "parked"
       THEN /\ qm' = [qm EXCEPT !.pc = "ctx"]
            /\ qh' = [qh EXCEPT !.firedWaiting = (qh.recvd = <<>>)]
       ELSE UNCHANGED <<qm, qh>>
    /\ UNCHANGED <<tasks, crashed, cvars, evars>>

\* the cancellation of ctx reaches its child ctx2
Propagate ==
    /\ ~crashed
    /\ ctx.done /\ ~ctx.done2
    /\ ctx' = [ctx EXCEPT !.done2 = TRUE]
    /\ tasks' = WakeSenders(tasks)
    /\ UNCHANGED <<qm, qh, crashed, cvars, evars>>

\* querySingle of task t ends: a reply of its server, or an error and no
\* message
querySingle(t, ok) ==
    /\ ~crashed
    /\ t \in DOMAIN tasks
    /\ tasks[t].pc = "query"
    /\ tasks' = [tasks EXCEPT ![t].pc = "post",
                   ![t].answer = IF ok THEN queryAnswer(tasks[t].ns, "nil", tasks[t].ns)
                                 ELSE queryAnswer("nil", "e", tasks[t].ns)]
    /\ UNCHANGED <<qm, ctx, qh, crashed, cvars, evars>>

\* querySingleChan after querySingle: for an NS question msg.Extra is read,
\* which panics when there is no message
querySingleChan(t) ==
    /\ ~crashed
    /\ t \in DOMAIN tasks
    /\ tasks[t].pc = "post"
    /\ IF qm.qtype = "NS" /\ tasks[t].answer.msg = "nil"
       THEN crashed' = TRUE /\ UNCHANGED tasks
       ELSE tasks' = [tasks EXCEPT ![t].pc = "poll"] /\ UNCHANGED crashed
    /\ UNCHANGED <<qm, ctx, qh, cvars, evars>>

\* the first select of the send loop: return if ctx2 is done
SendPoll(t) ==
    /\ ~crashed
    /\ t \in DOMAIN tasks
    /\ tasks[t].pc = "poll"
    /\ tasks' = [tasks EXCEPT ![t].pc = IF ctx.done2 THEN "done" ELSE "send"]
    /\ UNCHANGED <<qm, ctx, qh, crashed, cvars, evars>>

\* the second select: ctx2.Done() or the send, either if both are ready;
\* otherwise the task parks
SendSelect(t) ==
    /\ ~crashed
    /\ t \in DOMAIN tasks
    /\ tasks[t].pc = "send"
    /\ \/ /\ ctx.done2
          /\ tasks' = [tasks EXCEPT ![t].pc = "done"]
          /\ UNCHANGED <<qm, ctx, qh, crashed>>
       \/ qm.pc = "parked" /\ Rendezvous(t)
       \/ /\ ~ctx.done2 /\ qm.pc # "parked"
          /\ tasks' = [tasks EXCEPT ![t].pc = "parked"]
          /\ UNCHANGED <<qm, ctx, qh, crashed>>
    /\ UNCHANGED <<cvars, evars>>

NextQM ==
    \/ \E p \in Shuffles(Len(qm.ns)) : queryMultiple(p)
    \/ QMSelect \/ QMDecide \/ QMDone
    \/ Fire \/ Propagate
    \/ \E t \in 1..MaxNameservers :
          \/ \E ok \in BOOLEAN : querySingle(t, ok)
          \/ querySingleChan(t)
          \/ SendPoll(t) \/ SendSelect(t)

SpecQM == InitQM /\ [][NextQM]_vars

----------------------------------------------------------------------------
(* queryMultiple: claims *)

Launched == Len(tasks)

IsLast(r) ==
    /\ qh.recvd # <<>>
    /\ qh.recvd[Len(qh.recvd)].msg = r.msg
    /\ qh.recvd[Len(qh.recvd)].err = r.err

\* C9: a reply queryMultiple returns with a nil error is the first reply
\* with a nil error that was received, and nothing was received after it;
\* a reply it returns with an error is the last one received, after every
\* launched task delivered a reply with an error; and it never returns the
\* context's error after it received a reply with a nil error.
C9_FirstGoodOrLastError ==
    /\ (qh.ret.kind = "reply" /\ qh.ret.err = "nil") =>
          /\ IsLast(qh.ret)
          /\ \A i \in 1..(Len(qh.recvd) - 1) : qh.recvd[i].err # "nil"
    /\ (qh.ret.kind = "reply" /\ qh.ret.err # "nil") =>
          /\ IsLast(qh.ret)
          /\ Len(qh.recvd) = Launched
          /\ \A i \in DOMAIN qh.recvd : qh.recvd[i].err # "nil"
          /\ qh.ret.msg = "nil"
    /\ qh.ret.kind = "ctx" => \A i \in DOMAIN qh.recvd : qh.recvd[i].err # "nil"
    /\ qm.pc = "returned" => qh.ret.kind \in {"reply", "ctx"}

\* C9 witness: the first reply received had an error and the collector
\* went on; the reply of the second task, with a nil error, is returned
C9_Witness ==
    /\ qm.pc = "returned"
    /\ qh.ret.kind = "reply" /\ qh.ret.err = "nil"
    /\ Len(qh.recvd) = 2 /\ qh.recvd[1].err = "e"
    /\ qh.ret.msg = qh.recvd[2].msg

\* C10, as claimed: once the deadline fired while the collector was parked
\* in its select with no reply delivered, queryMultiple has returned the
\* deadline error with no message, or it is about to.
C10_AsClaimed ==
    qh.firedWaiting =>
        \/ qm.pc = "returned" /\ qh.ret = DeadlineExceeded
        \/ qm.pc = "ctx" /\ ~crashed

\* C10, what the code keeps of it: when queryMultiple returns after such a
\* deadline, it returns the deadline error and no message
C10_DeadlineErrorIfReturned ==
    (qh.firedWaiting /\ qm.pc = "returned") => qh.ret = DeadlineExceeded

\* C10 witness: the deadline fired while the collector was parked with no
\* reply delivered, and queryMultiple has returned while a task is still
\* in its query
C10_Witness ==
    qh.firedWaiting /\ qm.pc = "returned" /\ \E t \in DOMAIN tasks : tasks[t].pc = "query"

\* a step of task t
TaskStep(t) ==
    \/ \E ok \in BOOLEAN : querySingle(t, ok)
    \/ querySingleChan(t)
    \/ SendPoll(t) \/ SendSelect(t)

\* the scheduler runs every goroutine that can run, an exchange ends (the
\* client has a timeout), and a cancellation reaches the child context;
\* the deadline itself need not fire
SpecQMFair ==
    /\ SpecQM
    /\ WF_vars(QMSelect) /\ WF_vars(QMDecide) /\ WF_vars(QMDone)
    /\ WF_vars(Propagate)
    /\ \A t \in 1..MaxNameservers : WF_vars(TaskStep(t))

AllTasksEnded == \A t \in DOMAIN tasks : tasks[t].pc = "done"

\* C11: once queryMultiple has returned, every task it launched ends (or
\* the process has ended in a panic), so none stays parked in its send; and
\* no reply is handed over once ctx2 is done, which is what a task looks at.
C11_TasksEnd ==
    /\ (qm.pc = "returned") ~> (AllTasksEnded \/ crashed)
    /\ [][qh.recvd' # qh.recvd => ~ctx.done2]_vars

\* C11 witness: queryMultiple has returned, every task has ended, and one
\* of them had a reply that it never sent
C11_Witness ==
    /\ qm.pc = "returned"
    /\ AllTasksEnded
    /\ \E t \in DOMAIN tasks :
          /\ tasks[t].answer # NoAnswer
          /\ \A i \in DOMAIN qh.recvd : qh.recvd[i] # tasks[t].answer

\* C12, as claimed: a task whose querySingle failed (no message) goes on to
\* its send loop whatever the question type; it never reads a field of the
\* absent message, which ends the process.
C12_AsClaimed ==
    \A t \in DOMAIN tasks :
        (tasks[t].pc = "post" /\ tasks[t].answer.msg = "nil") => ~crashed

\* C12 witness: for an NS question a task's querySingle failed and the task
\* has read msg.Extra of the nil message
C12_Witness ==
    /\ crashed
    /\ qm.qtype = "NS"
    /\ \E t \in DOMAIN tasks :
          tasks[t].pc = "post" /\ tasks[t].answer.err # "nil"

----------------------------------------------------------------------------
(* The resolution engine: Resolve, resolveWithContext, queryWithCache and  *)
(* the path of a query through queryMultiple, querySingleChan, querySingle *)
(*                                                                         *)
(* The goroutine of Resolve is a stack of call frames.  The tasks of a     *)
(* fan-out run one after the other in the order of the shuffle, up to the  *)
(* first that delivers a reply the collector returns; the zones of this    *)
(* model have one nameserver each, so a fan-out is one task.  A failing    *)
(* exchange stands for every failure of the network, a deadline included.  *)

MaxDepth == 10

LoopLimit == 4

MaxResolves == 2

ErrMaxDepth == "ErrMaxDepth"
ErrMaxParent == "ErrMaxParent"
ErrNoNS == "ErrNoNS"
ErrQueryLoop == "ErrQueryLoop"

Last(s) == s[Len(s)]

Front(s) == SubSeq(s, 1, Len(s) - 1)

\* dns.SplitDomainName: the labels of a name, none for the root
RECURSIVE SplitDomainName(_)
SplitDomainName(name) ==
    IF name = <<>> \/ name = <<".">> THEN <<>>
    ELSE LET dots == {i \in DOMAIN name : name[i] = "."}
             d == IF dots = {} THEN Len(name) + 1
                  ELSE CHOOSE i \in dots : \A j \in dots : i <= j
         IN  <<SubSeq(name, 1, d - 1)>> \o SplitDomainName(SubSeq(name, d + 1, Len(name)))

\* strings.Join(labels, ".")
RECURSIVE Join(_)
Join(labels) ==
    IF labels = <<>> THEN <<>>
    ELSE IF Len(labels) = 1 THEN labels[1]
    ELSE labels[1] \o <<".">> \o Join(Tail(labels))

\* mutant: the root has a parent, the root
parent_OfRoot(name) ==
    LET labels == SplitDomainName(name) IN
    [name |-> toLowerFQDN(Join(Tail(IF labels = <<>> THEN <<<<>>>> ELSE labels))),
     ok |-> TRUE]

\* parent(name): the name without its first label
parent(name) ==
    LET labels == SplitDomainName(name) IN
    IF labels = <<>> THEN [name |-> <<>>, ok |-> FALSE]
    ELSE [name |-> toLowerFQDN(Join(Tail(labels))), ok |-> TRUE]

\* mutant: no host is taken for an address
IsIpv4Net_Never(host) == FALSE

\* net.ParseIP(host) != nil: the hosts of the model are names
IsIpv4Net(host) == host \in {IP1, IP2, IPR}

\* the owner names of the A records
findNameOfA(list) ==
    FlatMap(LAMBDA rr : IF rr.rrtype = TypeA THEN <<rr.name>> ELSE <<>>, list)

\* a.String() of an NS record, the TTL as one character
String(a) ==
    a.name \o <<"\t", "ttl", "\t", "IN", "\t", "NS", "\t">> \o a.rdata[1]

\* strings.Contains(s, f)
Contains(s, f) ==
    \E i \in 1..(Len(s) - Len(f) + 1) : SubSeq(s, i, i + Len(f) - 1) = f

\* cache.get as one step: the scan, and the A records of the targets
get(list, t, qname, qtype) ==
    LET ans == ScanGet(list, t, toLowerFQDN(qname), StringToType(qtype)) IN
    IF ans = <<>> THEN Msg(<<>>, <<>>, <<>>)
    ELSE Msg(ans, <<>>,
             FlatMap(LAMBDA n : ScanGet(list, t, toLowerFQDN(n), TypeA),
                     GlueTargets(qtype, ans)))

\* the NS records of the answer that querySingleChan removes for want of
\* an A record in the additional section
RemoveUnglued(qtype, msg) ==
    IF qtype = "NS" /\ ~msg.nil /\ Len(findA(msg.Answer)) # Len(findA(msg.Extra))
    THEN LET foundNS == findNameOfA(msg.Extra) IN
         [msg EXCEPT !.Answer =
            SelectSeq(@, LAMBDA a :
               a.rrtype # TypeNS
               \/ \E k \in DOMAIN foundNS : Contains(String(a), foundNS[k]))]
    ELSE msg

(* The network of the model *)

NameA == <<"a", ".">>
NameC == <<"c", ".">>
NameD == <<"d", ".">>
NameE == <<"e", ".">>
NameF == <<"f", ".">>
NameG == <<"g", ".">>
NameN == <<"n", ".">>
NameR == <<"r", ".">>

ReplyTTL == 1

\* what a server may reply to a question; every exchange may also fail
Replies(qname, dtype) ==
    LET q == toLowerFQDN(qname) IN
    CASE q = NameA /\ dtype = TypeA ->
           { Msg(<< RR(<<"A", ".">>, TypeA, ReplyTTL, <<IP1>>) >>, <<>>, <<>>),
             Msg(<< RR(NameA, TypeA, ReplyTTL, <<IP1>>) >>, <<>>,
                 << RR(NameA, TypeA, ReplyTTL, <<IP2>>) >>),
             Msg(<<>>, << RR(NameA, TypeSOA, ReplyTTL, <<NameR>>) >>, <<>>) }
      [] q = NameC /\ dtype = TypeA ->
           { Msg(<< RR(NameC, TypeCNAME, ReplyTTL, <<NameA>>) >>, <<>>, <<>>) }
      [] q = NameD /\ dtype = TypeA ->
           { Msg(<< RR(NameD, TypeCNAME, ReplyTTL, <<NameD>>) >>, <<>>, <<>>) }
      [] q = NameA /\ dtype = TypeNS ->
           { Msg(<< RR(NameA, TypeNS, ReplyTTL, <<NameN>>) >>, <<>>, <<>>) }
      [] q = NameN /\ dtype = TypeA ->
           { Msg(<< RR(NameN, TypeA, ReplyTTL, <<IP2>>) >>, <<>>, <<>>) }
      [] q = <<"p", ".">> /\ dtype = TypeNS ->
           { Msg(<< RR(<<"p", ".">>, TypeNS, ReplyTTL, <<NameN>>) >>, <<>>, <<>>),
             Msg(<<>>, << RR(<<"p", ".">>, TypeSOA, ReplyTTL, <<NameR>>) >>, <<>>),
             Msg(<< RR(<<"p", ".">>, TypeA, ReplyTTL, <<IP1>>) >>, <<>>, <<>>) }
      [] q = NameE /\ dtype = TypeA ->
           { Msg(<<>>, << RR(NameE, TypeNS, ReplyTTL, <<NameF>>),
                          RR(NameF, TypeNS, ReplyTTL, <<NameG>>),
                          RR(NameG, TypeNS, ReplyTTL, <<NameF>>) >>, <<>>) }
      [] OTHER -> { Msg(<<>>, <<>>, <<>>) }

\* the questions put to Resolve
EngineQueries ==
    { << <<"a">>, "A" >>, << NameC, "A" >>, << NameD, "A" >>, << NameA, "NS" >>,
      << NameE, "A" >> }

(* Frames and configurations *)

Frame(fn, pc, qname, qtype, depth) ==
    [fn |-> fn, pc |-> pc, qname |-> qname, qtype |-> qtype, depth |-> depth,
     msg |-> NilMsg, err |-> "nil", ns |-> <<>>, i |-> 0, n |-> 0,
     todo |-> <<>>, sub |-> "", xq |-> <<>>]

Cfg == [stack |-> stack, rv |-> rv, rrs |-> rrs, qs |-> qs, eh |-> eh,
        crashed |-> crashed]

Top(c) == c.stack[Len(c.stack)]

SetTop(c, f) == [c EXCEPT !.stack[Len(c.stack)] = f]

Push(c, f) == [c EXCEPT !.stack = Append(@, f)]

\* mutant: a return loses its error
Return_NoError(c, msg, err) ==
    [c EXCEPT !.stack = Front(@), !.rv = [msg |-> msg, err |-> "nil"]]

\* return (msg, err) to the caller
Return(c, msg, err) ==
    [c EXCEPT !.stack = Front(@), !.rv = [msg |-> msg, err |-> err]]

Apply(c) ==
    /\ stack' = c.stack
    /\ rv' = c.rv
    /\ rrs' = c.rrs
    /\ qs' = c.qs
    /\ eh' = c.eh
    /\ crashed' = c.crashed
    /\ UNCHANGED <<now, w, cth, hist, ops, qm, tasks, ctx, qh, qloc, resolver>>

At(fn, pc) ==
    /\ ~crashed
    /\ stack # <<>>
    /\ Last(stack).fn = fn
    /\ Last(stack).pc = pc

Key(qname, qtype) == <<qname, qtype>>

Count(f, k) == IF k \in DOMAIN f THEN f[k] ELSE 0

Bump(f, k) ==
    [x \in DOMAIN f \cup {k} |-> IF x = k THEN Count(f, k) + 1 ELSE f[x]]

\* the call r.queryWithCache(ctx, qname, qtype, depth, qs)
Call(c, qname, qtype, depth) ==
    Push(c, Frame("qwc", "enter", qname, qtype, depth))

(* queryWithCache *)

\* mutant: queryMultiple is given two levels more than its caller has
FanOut_Deeper(c, nsrrs) ==
    LET f == Top(c)
        ns == findNS(nsrrs) IN
    IF ns = <<>> THEN Return(c, NilMsg, ErrNoNS)
    ELSE Push(SetTop(c, [f EXCEPT !.pc = "qm"]),
              [Frame("qm", "start", f.qname, f.qtype, f.depth + 2) EXCEPT !.ns = ns])

\* findNS of the records found, and the fan-out over these nameservers
FanOut(c, nsrrs) ==
    LET f == Top(c)
        ns == findNS(nsrrs) IN
    IF ns = <<>> THEN Return(c, NilMsg, ErrNoNS)
    ELSE Push(SetTop(c, [f EXCEPT !.pc = "qm"]),
              [Frame("qm", "start", f.qname, f.qtype, f.depth + 1) EXCEPT !.ns = ns])

\* mutant: the loop counter lets every invocation pass
LoopDetected_Never(n) == FALSE

\* the test of the loop counter
LoopDetected(n) == n > LoopLimit

\* queryWithCache from its start to its first call or return
queryWithCache ==
    /\ At("qwc", "enter")
    /\ LET f == Top(Cfg)
           k == Key(f.qname, f.qtype)
           c1 == [Cfg EXCEPT !.eh.inv = Bump(@, k)]
           hit == get(rrs, now, f.qname, f.qtype)
           c2 == [c1 EXCEPT !.qs = Bump(@, k)]
           c3 == [c2 EXCEPT !.eh.passed = Bump(@, k)]
           nsm == get(rrs, now, f.qname, "NS")
           p == parent(f.qname)
       IN  Apply(IF f.depth > MaxDepth THEN Return(c1, NilMsg, ErrMaxDepth)
                 ELSE IF hit.Answer # <<>> THEN Return(c1, hit, "nil")
                 ELSE IF LoopDetected(Count(c2.qs, k)) THEN Return(c2, NilMsg, ErrQueryLoop)
                 ELSE IF nsm.Answer # <<>> THEN FanOut(c3, nsm.Answer)
                 ELSE IF ~p.ok THEN Return(c3, NilMsg, ErrMaxParent)
                 ELSE Call(SetTop(c3, [f EXCEPT !.pc = "parent"]),
                           p.name, "NS", f.depth + 1))

\* the query for the parent's nameservers has returned
QwcParent ==
    /\ At("qwc", "parent")
    /\ Apply(IF rv.err # "nil" THEN Return(Cfg, NilMsg, rv.err)
             ELSE FanOut(Cfg, IF rv.msg.Answer = <<>> THEN rv.msg.Ns
                              ELSE rv.msg.Answer))

\* the CNAME loop of queryWithCache, then addMsg and the return
QwcChase(c, rmsg) ==
    LET f == Top(c)
        cname == findCNAME(rmsg.Answer) IN
    IF f.qtype = "A" /\ findA(rmsg.Answer) = <<>> /\ f.depth < MaxDepth
       /\ cname # <<>>
    THEN Call(SetTop(c, [f EXCEPT !.pc = "chase", !.msg = rmsg, !.depth = @ + 1]),
              Last(cname), "A", f.depth + 1)
    ELSE Return([c EXCEPT !.rrs = addMsg(@, now, rmsg)], rmsg, "nil")

\* queryMultiple has returned
QwcFanIn ==
    /\ At("qwc", "qm")
    /\ Apply(IF rv.err # "nil" THEN Return(Cfg, NilMsg, rv.err)
             ELSE QwcChase(Cfg, rv.msg))

\* a step of the CNAME loop has returned
QwcChaseRet ==
    /\ At("qwc", "chase")
    /\ LET f == Top(Cfg) IN
       Apply(QwcChase(Cfg, IF rv.err = "nil"
                           THEN [f.msg EXCEPT !.Answer = @ \o rv.msg.Answer]
                           ELSE f.msg))

(* queryMultiple, querySingleChan and querySingle on the path of a query *)

\* querySingle(ctx, ns, qname, qtype): the address of ns, then the exchange
QuerySingle(c, f, qname, qtype, sub) ==
    LET g == [f EXCEPT !.sub = sub, !.xq = <<qname, qtype>>] IN
    IF IsIpv4Net(f.ns[f.i]) THEN SetTop(c, [g EXCEPT !.pc = "exchange"])
    ELSE Call(SetTop(c, [g EXCEPT !.pc = "addr"]), f.ns[f.i], "A", f.depth + 1)

\* the send of the task and the collector's test; the next task if the
\* collector goes on
Deliver(c, f) ==
    IF f.err = "nil" \/ f.i = f.n THEN Return(SetTop(c, f), f.msg, f.err)
    ELSE QuerySingle(c, [f EXCEPT !.i = @ + 1, !.msg = NilMsg, !.err = "nil"],
                     f.qname, f.qtype, "main")

\* the loop of querySingleChan over the nameservers without an address
FollowUp(c, f) ==
    IF f.todo = <<>>
    THEN Deliver(c, [f EXCEPT !.msg = RemoveUnglued(f.qtype, f.msg)])
    ELSE QuerySingle(c, f, Head(f.todo), "A", "follow")

\* querySingle has returned (msg, err) to querySingleChan
QuerySingleRet(c, f, msg, err) ==
    IF f.sub = "main"
    THEN IF f.qtype = "NS" /\ msg.nil THEN [c EXCEPT !.crashed = TRUE]
         ELSE IF f.qtype = "NS" /\ findA(msg.Answer) = <<>> /\ findA(msg.Extra) = <<>>
         THEN FollowUp(c, [f EXCEPT !.msg = msg, !.err = err,
                                    !.todo = findNS(msg.Answer)])
         ELSE Deliver(c, [f EXCEPT !.msg = RemoveUnglued(f.qtype, msg), !.err = err])
    ELSE FollowUp(c, [f EXCEPT !.todo = Tail(@),
                               !.msg = IF err = "nil"
                                       THEN [f.msg EXCEPT !.Extra = @ \o msg.Answer]
                                       ELSE f.msg])

\* queryMultiple: the shuffle and the first task
FanOutStart(p) ==
    /\ At("qm", "start")
    /\ LET f == Top(Cfg)
           g == [f EXCEPT !.ns = [i \in DOMAIN f.ns |-> f.ns[p[i]]],
                          !.n = Min(MaxNameservers, Len(f.ns)), !.i = 1]
       IN  Apply(QuerySingle([Cfg EXCEPT !.eh.fan = @ + 1], g, f.qname, f.qtype, "main"))

\* querySingle has the answer of queryWithCache for its nameserver
NsAddress ==
    /\ At("qm", "addr")
    /\ LET f == Top(Cfg) IN
       Apply(IF rv.err # "nil" THEN QuerySingleRet(Cfg, f, NilMsg, rv.err)
             ELSE IF findA(rv.msg.Answer) = <<>>
             THEN QuerySingleRet(Cfg, f, NilMsg, "ErrNoAddress")
             ELSE SetTop(Cfg, [f EXCEPT !.pc = "exchange"]))

\* a question put to a server and what came back
Asked(qname, dtype, m) == [qname |-> toLowerFQDN(qname), dtype |-> dtype, msg |-> m]

\* client.ExchangeContext: a reply of the server, or an error
Exchange ==
    /\ At("qm", "exchange")
    /\ LET f == Top(Cfg)
           t == StringToType(f.xq[2])
           dtype == IF t = 0 THEN TypeA ELSE t
           c == [Cfg EXCEPT !.eh.netq = @ + 1]
       IN  \E m \in Replies(f.xq[1], dtype) \cup {NilMsg} :
              Apply(QuerySingleRet([c EXCEPT !.eh.seen = @ \cup {Asked(f.xq[1], dtype, m)}],
                                   f, m, IF m.nil THEN "ErrExchange" ELSE "nil"))

(* Resolve and resolveWithContext *)

\* the expiry of the cached records of message m
Expiries(list, m) ==
    { list[j].expires : j \in { j \in DOMAIN list :
          \E i \in DOMAIN MsgRRs(m) : InsertId(list[j].rr) = InsertId(MsgRRs(m)[i]) } }

\* resolveWithContext returns, and so does Resolve
ResolveReturn(c, msg, err) ==
    LET f == Top(c) IN
    [c EXCEPT !.stack = <<>>,
              !.rv = [msg |-> msg, err |-> err],
              !.eh.log = Append(@, [qname |-> f.qname, qtype |-> f.qtype,
                                    msg |-> msg, err |-> err,
                                    fan |-> c.eh.fan, netq |-> c.eh.netq,
                                    seen |-> c.eh.seen,
                                    at |-> now,
                                    prev |-> c.eh.prev])]

\* the addresses of the nameservers of an NS answer
RwcBackfill(c, msg) ==
    LET f == Top(c)
        ns == findNS(msg.Answer) IN
    IF f.qtype = "NS" /\ findA(msg.Extra) = <<>> /\ ns # <<>>
    THEN Call(SetTop(c, [f EXCEPT !.pc = "backfill", !.msg = msg]),
              ns[1], "A", f.depth)
    ELSE ResolveReturn(c, msg, "nil")

\* the CNAME loop of resolveWithContext
RwcChase(c, msg) ==
    LET f == Top(c)
        cname == findCNAME(msg.Answer) IN
    IF f.qtype = "A" /\ findA(msg.Answer) = <<>> /\ f.depth < MaxDepth
       /\ cname # <<>>
    THEN Call(SetTop(c, [f EXCEPT !.pc = "chase", !.msg = msg, !.depth = @ + 1]),
              Last(cname), "A", f.depth + 1)
    ELSE RwcBackfill(c, msg)

\* mutant: the retry loop stops at ErrQueryLoop
RetryGoesOn_UntilLoop(err, err2) == err2 # ErrQueryLoop

\* the last conjunct of the retry loop's test: err is the error of the
\* first call, the error err2 of a retry is not looked at
RetryGoesOn(err, err2) == err # ErrQueryLoop

\* mutant: the ErrQueryLoop of a retry is returned
RwcRetry_ReturnsLoop(c, msg, err2) ==
    LET f == Top(c) IN
    IF err2 = ErrQueryLoop THEN ResolveReturn(c, NilMsg, err2)
    ELSE IF msg.Answer = <<>> /\ f.depth < MaxDepth
    THEN Call(SetTop(c, [f EXCEPT !.pc = "retry", !.msg = msg, !.depth = @ + 1]),
              f.qname, f.qtype, f.depth + 1)
    ELSE RwcChase(c, msg)

\* the retry loop of resolveWithContext
RwcRetry(c, msg, err2) ==
    LET f == Top(c) IN
    IF msg.Answer = <<>> /\ f.depth < MaxDepth /\ RetryGoesOn(f.err, err2)
    THEN Call(SetTop(c, [f EXCEPT !.pc = "retry", !.msg = msg, !.depth = @ + 1]),
              f.qname, f.qtype, f.depth + 1)
    ELSE RwcChase(c, msg)

\* Resolve(qname, qtype) and resolveWithContext up to its first call
Resolve(qname, qtype) ==
    LET name == toLowerFQDN(IF Len(qname) > 0 /\ Last(qname) = "." THEN qname
                            ELSE qname \o <<".">>) IN
    /\ ~crashed
    /\ stack = <<>>
    /\ eh.n < MaxResolves
    /\ stack' = << Frame("rwc", "first", name, qtype, 0),
                   Frame("qwc", "enter", name, qtype, 0) >>
    /\ qs' = <<>>
    /\ eh' = [eh EXCEPT !.n = @ + 1, !.inv = <<>>, !.passed = <<>>, !.fan = 0,
                        !.netq = 0, !.seen = {}, !.idle = FALSE,
                        !.prev = [i \in DOMAIN eh.log |-> Expiries(rrs, eh.log[i].msg)]]
    /\ UNCHANGED <<rv, crashed, cvars, qm, tasks, ctx, qh, qloc, resolver>>

\* the first queryWithCache has returned
RwcFirst ==
    /\ At("rwc", "first")
    /\ Apply(IF rv.err # "nil" THEN ResolveReturn(Cfg, NilMsg, rv.err)
             ELSE RwcRetry(Cfg, rv.msg, "nil"))

\* a retry has returned
RwcRetryRet ==
    /\ At("rwc", "retry")
    /\ LET f == Top(Cfg) IN
       Apply(RwcRetry(Cfg, IF rv.err = "nil"
                           THEN [f.msg EXCEPT !.Answer = @ \o rv.msg.Answer]
                           ELSE f.msg, rv.err))

\* a step of the CNAME loop has returned; eh.idle records that a step of
\* this Resolve has added no RR to the answer
RwcChaseRet ==
    /\ At("rwc", "chase")
    /\ LET f == Top(Cfg)
           added == IF rv.err = "nil" THEN rv.msg.Answer ELSE <<>> IN
       Apply(RwcChase([Cfg EXCEPT !.eh.idle = @ \/ added = <<>>],
                      [f.msg EXCEPT !.Answer = @ \o added]))

\* the query for the address of the first nameserver has returned
RwcBackfillRet ==
    /\ At("rwc", "backfill")
    /\ LET f == Top(Cfg) IN
       Apply(ResolveReturn(Cfg, IF rv.err = "nil"
                                THEN [f.msg EXCEPT !.Extra = @ \o rv.msg.Extra]
                                ELSE f.msg, "nil"))

\* time passes, between two calls of Resolve or during an exchange
Elapse ==
    /\ IF stack = <<>> THEN TRUE ELSE Last(stack).pc = "exchange"
    /\ Tick

InitEngine == CacheIdle /\ QMIdle /\ EngineIdle

NextEngine ==
    \/ \E q \in EngineQueries : Resolve(q[1], q[2])
    \/ RwcFirst \/ RwcRetryRet \/ RwcChaseRet \/ RwcBackfillRet
    \/ queryWithCache \/ QwcParent \/ QwcFanIn \/ QwcChaseRet
    \/ \E p \in Shuffles(IF At("qm", "start") THEN Len(Last(stack).ns) ELSE 0) :
          FanOutStart(p)
    \/ NsAddress \/ Exchange
    \/ Elapse

SpecEngine == InitEngine /\ [][NextEngine]_vars

----------------------------------------------------------------------------
(* The engine: claims *)

Ids(list) == { InsertId(list[i]) : i \in DOMAIN list }

Sections(m) == m.Answer \o m.Ns \o m.Extra

Cached(rr) == \E j \in DOMAIN rrs : InsertId(rrs[j].rr) = InsertId(rr)

\* Resolve i and the later Resolve j asked for the same name and type
SamePair(i, j) ==
    /\ i < j
    /\ eh.log[i].qname = eh.log[j].qname
    /\ eh.log[i].qtype = eh.log[j].qtype

\* the cached records of reply i, as they were when Resolve j was called,
\* expire after Resolve j has returned
Unexpired(i, j) == \A x \in eh.log[j].prev[i] : x > eh.log[j].at

\* Resolve j returned the answer of Resolve i, started no queryMultiple
\* and asked no server
Repeats(i, j) ==
    /\ eh.log[j].err = "nil"
    /\ Ids(eh.log[j].msg.Answer) = Ids(eh.log[i].msg.Answer)
    /\ eh.log[j].fan = 0
    /\ eh.log[j].netq = 0

\* C6, as claimed: a Resolve that follows a successful Resolve of the same
\* name and type, while the records of the first reply are unexpired,
\* returns the same answer (TTLs aside) and asks no server.
C6_AsClaimed ==
    \A i, j \in DOMAIN eh.log :
        (SamePair(i, j) /\ eh.log[i].err = "nil" /\ Unexpired(i, j)) => Repeats(i, j)

\* the answer of reply i is not empty and holds only records of the name
\* and type asked for
AnswersTheQuestion(i) ==
    LET m == eh.log[i].msg IN
    /\ m.Answer # <<>>
    /\ \A k \in DOMAIN m.Answer :
          /\ toLowerFQDN(m.Answer[k].name) = eh.log[i].qname
          /\ m.Answer[k].rrtype = StringToType(eh.log[i].qtype)

\* the additional section of reply i has the address of a nameserver of
\* its answer
HasGlue(i) ==
    LET m == eh.log[i].msg IN
    \E a \in DOMAIN m.Extra, n \in DOMAIN m.Answer :
        /\ m.Extra[a].rrtype = TypeA
        /\ m.Answer[n].rrtype = TypeNS
        /\ toLowerFQDN(m.Extra[a].name) = toLowerFQDN(m.Answer[n].rdata[1])

\* the cache holds a record of the name and type of Resolve i that is not
\* in its answer
OtherCached(i) ==
    \E e \in DOMAIN rrs :
        /\ rrs[e].rr.name = eh.log[i].qname
        /\ rrs[e].rr.rrtype = StringToType(eh.log[i].qtype)
        /\ InsertId(rrs[e].rr) \notin Ids(eh.log[i].msg.Answer)

\* C6, amended: if the answer of the first Resolve was not empty and held
\* only records of the name and type asked for (for an NS question, with
\* the address of one of its nameservers in the additional section), and
\* no other record of that name and type is cached, then a later Resolve
\* of the pair made while the records of the first reply are unexpired
\* returns the same answer (TTLs aside) and asks no server.
C6_CachedRepeat ==
    \A i, j \in DOMAIN eh.log :
        ( /\ SamePair(i, j) /\ eh.log[i].err = "nil" /\ Unexpired(i, j)
          /\ AnswersTheQuestion(i)
          /\ eh.log[i].qtype = "NS" => HasGlue(i)
          /\ ~OtherCached(i) )
        => Repeats(i, j)

\* C6 witness: the first Resolve asked a server, time has passed, and the
\* second is answered from the cache
C6_Witness ==
    \E i, j \in DOMAIN eh.log :
        /\ SamePair(i, j) /\ eh.log[i].err = "nil" /\ Unexpired(i, j)
        /\ AnswersTheQuestion(i) /\ ~OtherCached(i)
        /\ eh.log[i].netq > 0
        /\ eh.log[j].at > eh.log[i].at
        /\ Repeats(i, j)
        /\ \E k \in DOMAIN eh.log[j].msg.Answer :
              eh.log[j].msg.Answer[k].ttl < eh.log[i].msg.Answer[k].ttl

\* C7: every record of the three sections of a message Resolve returned
\* without error has an entry in the cache with its identity, the names in
\* canonical form (entries are never removed, so it stays there).
C7_RepliesAreCached ==
    \A i \in DOMAIN eh.log :
        eh.log[i].err = "nil" =>
            /\ ~eh.log[i].msg.nil
            /\ \A k \in DOMAIN Sections(eh.log[i].msg) : Cached(Sections(eh.log[i].msg)[k])

\* C7 witness: a Resolve that asked the network returned a message with
\* records in its answer and additional sections, one of them with a name
\* the server did not send in lower case
C7_Witness ==
    \E i \in DOMAIN eh.log :
        /\ eh.log[i].err = "nil" /\ eh.log[i].netq > 0
        /\ eh.log[i].msg.Answer # <<>> /\ eh.log[i].msg.Extra # <<>>
        /\ \E j \in DOMAIN eh.log :
              /\ eh.log[j].err = "nil"
              /\ \E k \in DOMAIN eh.log[j].msg.Answer :
                    eh.log[j].msg.Answer[k].name # toLowerFQDN(eh.log[j].msg.Answer[k].name)

\* C8, as claimed: within one Resolve no pair (qname, qtype) has more than
\* 5 invocations of queryWithCache.
C8_AsClaimed == \A k \in DOMAIN eh.inv : eh.inv[k] <= 5

\* C8, what the counter does bound: at most LoopLimit invocations for a
\* pair get past the loop counter
C8_CounterBound == \A k \in DOMAIN eh.passed : eh.passed[k] <= LoopLimit

\* C8 witness: a pair with LoopLimit invocations past the counter and more
\* invocations than that
C8_CounterWitness == \E k \in DOMAIN eh.passed : eh.passed[k] = LoopLimit /\ eh.inv[k] > LoopLimit


\* the NS records of the answer of m have an A record in the additional
\* section that is owned by their target
Glued(m) ==
    \A i \in DOMAIN m.Answer :
        m.Answer[i].rrtype = TypeNS =>
            \E j \in DOMAIN m.Extra :
                /\ m.Extra[j].rrtype = TypeA
                /\ toLowerFQDN(m.Extra[j].name) = toLowerFQDN(m.Answer[i].rdata[1])

\* queryMultiple has handed the reply of a task to queryWithCache, for an
\* NS question
DeliveredNS ==
    /\ At("qwc", "qm")
    /\ Last(stack).qtype = "NS"
    /\ rv.err = "nil"

\* C13, as claimed: for an NS question every NS record in the answer of a
\* delivered reply has an A record for its target in the additional section.
C13_AsClaimed == DeliveredNS => Glued(rv.msg)

\* C13 witness: a delivered reply for an NS question with an NS record in
\* its answer and nothing in its additional section
C13_Witness ==
    /\ DeliveredNS
    /\ findNS(rv.msg.Answer) # <<>>
    /\ rv.msg.Extra = <<>>

\* the last Resolve has returned
Returned == stack = <<>> /\ eh.log # <<>>

LastResolve == eh.log[Len(eh.log)]

\* the counter of the pair asked for went over the limit in the Resolve
\* that has returned: the pairs other than the one asked for are counted
\* in nested calls only
OwnLoop == Count(qs, Key(LastResolve.qname, LastResolve.qtype)) > LoopLimit

C15_MsgOrError ==
    \A i \in DOMAIN eh.log : eh.log[i].msg.nil <=> eh.log[i].err # "nil"

\* C15 witness: one Resolve has returned a message with an empty answer and
\* no error, another an error and no message
C15_Witness ==
    /\ \E i \in DOMAIN eh.log :
          eh.log[i].err = "nil" /\ ~eh.log[i].msg.nil /\ eh.log[i].msg.Answer = <<>>
    /\ \E i \in DOMAIN eh.log :
          eh.log[i].err # "nil" /\ eh.log[i].msg.nil

\* no record occurs twice in the list, the TTL left aside
NoRepeat(list) ==
    \A i, j \in DOMAIN list :
        InsertId(list[i]) = InsertId(list[j]) => i = j

\* C18, as claimed: no record occurs twice in the answer of a message that
\* Resolve returned without error.
C18_AsClaimed ==
    \A i \in DOMAIN eh.log :
        eh.log[i].err = "nil" => NoRepeat(eh.log[i].msg.Answer)

\* C18 witness: Resolve has returned, without error, an answer that holds
\* the same CNAME record more than once
C18_Witness ==
    \E i \in DOMAIN eh.log :
        /\ eh.log[i].err = "nil"
        /\ \E j, k \in DOMAIN eh.log[i].msg.Answer :
              /\ j < k
              /\ eh.log[i].msg.Answer[j] = eh.log[i].msg.Answer[k]
              /\ eh.log[i].msg.Answer[j].rrtype = TypeCNAME

\* every exchange of Resolve i came back with a reply that has an answer
AllAnswered(i) ==
    \A x \in eh.log[i].seen : ~x.msg.nil /\ x.msg.Answer # <<>>

\* Resolve i asked a server for the A records of name
AskedFor(i, name) ==
    \E x \in eh.log[i].seen : x.qname = name /\ x.dtype = TypeA

\* the answer of Resolve i has a record of this type, owner and rdata
InAnswer(i, rrtype, name, rdata) ==
    \E k \in DOMAIN eh.log[i].msg.Answer :
        LET a == eh.log[i].msg.Answer[k] IN
        /\ a.rrtype = rrtype
        /\ toLowerFQDN(a.name) = name
        /\ rdata \in {<<>>, a.rdata}

\* C16: Resolve("c.", "A"), c. being an alias of a. and a. having an A
\* record, every exchange answered: the answer has the CNAME record of c.
\* and an A record of a.
C16_ChainResolved ==
    \A i \in DOMAIN eh.log :
        (/\ eh.log[i].qname = NameC /\ eh.log[i].qtype = "A"
         /\ eh.log[i].err = "nil"
         /\ AllAnswered(i))
        => /\ InAnswer(i, TypeCNAME, NameC, <<NameA>>)
           /\ InAnswer(i, TypeA, NameA, <<>>)

\* C16 witness: such a Resolve that asked the servers for c. and for a.
C16_Witness ==
    \E i \in DOMAIN eh.log :
        /\ eh.log[i].qname = NameC /\ eh.log[i].qtype = "A"
        /\ eh.log[i].err = "nil"
        /\ AllAnswered(i)
        /\ AskedFor(i, NameC) /\ AskedFor(i, NameA)
        /\ InAnswer(i, TypeA, NameA, <<>>)

\* a reply without an answer and with an SOA record in its authority section
NoData(m) ==
    /\ ~m.nil /\ m.Answer = <<>>
    /\ \E k \in DOMAIN m.Ns : m.Ns[k].rrtype = TypeSOA

\* C17: Resolve("a", "A") that asked the servers and got nothing but replies
\* with an empty answer and an SOA record in the authority section returns
\* no error, an empty answer and that SOA record in the authority section.
C17_NoDataReturned ==
    \A i \in DOMAIN eh.log :
        (/\ eh.log[i].qname = NameA /\ eh.log[i].qtype = "A"
         /\ eh.log[i].seen # {}
         /\ \A x \in eh.log[i].seen : NoData(x.msg))
        => /\ eh.log[i].err = "nil"
           /\ ~eh.log[i].msg.nil
           /\ eh.log[i].msg.Answer = <<>>
           /\ \A x \in eh.log[i].seen : \A k \in DOMAIN x.msg.Ns :
                 \E j \in DOMAIN eh.log[i].msg.Ns : eh.log[i].msg.Ns[j] = x.msg.Ns[k]

\* C17 witness: such a Resolve has returned, after the counter of its pair
\* went over the limit in a retry
C17_Witness ==
    /\ Returned /\ OwnLoop
    /\ LastResolve.qname = NameA /\ LastResolve.qtype = "A"
    /\ LastResolve.seen # {}
    /\ \A x \in LastResolve.seen : NoData(x.msg)
    /\ NoData(LastResolve.msg)

----------------------------------------------------------------------------
(* addMsg called again with the same message *)

\* the messages passed to addMsg: nil, one that has a record twice with two
\* TTLs, one with an NS record and the address of its target
IdemMsgs ==
    CacheMsgs \cup
    { Msg(<< RR(NameA, TypeA, 1, <<IP1>>) >>,
          << RR(NameA, TypeNS, MaxTTL, <<NameN>>) >>,
          << RR(<<"N", ".">>, TypeA, 1, <<IP2>>) >>) }

IdemQueries ==
    { << NameA, "A" >>, << <<"A">>, "A" >>, << NameA, "NS" >>, << NameN, "A" >> }

\* a fresh cache; the history holds the calls of addMsg
InitIdem ==
    /\ rrs = newCache
    /\ now = 0
    /\ w = "free"
    /\ cth = [t \in CThreads |-> CIdle]
    /\ hist = <<>>
    /\ ops = [adds |-> 0, gets |-> 0]
    /\ QMIdle
    /\ EngineIdle

\* addMsg(m) by a single caller, from its call to its return
CallAddMsgAlone(m) ==
    /\ ops.adds < MaxAdds
    /\ rrs' = addMsg(rrs, now, m)
    /\ hist' = Append(hist, [m |-> m, at |-> now, before |-> rrs, after |-> rrs'])
    /\ ops' = [ops EXCEPT !.adds = @ + 1]
    /\ UNCHANGED <<now, w, cth, qvars, evars>>

NextIdem ==
    \/ Tick
    \/ \E m \in IdemMsgs : CallAddMsgAlone(m)

SpecIdem == InitIdem /\ [][NextIdem]_vars

\* call k + 1 of addMsg has the message of call k
Again(k) == k + 1 \in DOMAIN hist /\ hist[k + 1].m = hist[k].m

\* the times at which a get may follow call k
After(k) == hist[k].at .. MaxNow

\* every record of section x is in section y, the TTL aside
Within(x, y) == \A i \in DOMAIN x : \E j \in DOMAIN y : InsertId(x[i]) = InsertId(y[j])

\* C20, as claimed: after addMsg(m) and addMsg(m) every get answers as it
\* does after the first addMsg(m) alone.
C20_AsClaimed ==
    \A k \in DOMAIN hist :
        Again(k) =>
            \A q \in IdemQueries : \A t \in After(k + 1) :
                LET one == get(hist[k].after, t, q[1], q[2])
                    two == get(hist[k + 1].after, t, q[1], q[2])
                IN  Within(two.Answer, one.Answer) /\ Within(two.Extra, one.Extra)

\* C20: after addMsg(m) and addMsg(m) the cache has the entries it has
\* after the first addMsg(m) alone, in the same order, none expiring
\* earlier; it is the same cache if the clock did not advance between the
\* two calls; every get returns at least the records it would return after
\* the first call alone. addMsg(nil) changes nothing.
C20_AddMsgAgain ==
    \A k \in DOMAIN hist :
        /\ hist[k].m.nil => hist[k].after = hist[k].before
        /\ Again(k) =>
              LET one == hist[k].after
                  two == hist[k + 1].after
              IN  /\ Len(two) = Len(one)
                  /\ \A i \in DOMAIN one :
                        /\ two[i].rr = one[i].rr
                        /\ two[i].expires >= one[i].expires
                  /\ hist[k + 1].at = hist[k].at => two = one
                  /\ \A q \in IdemQueries : \A t \in After(k + 1) :
                        LET g1 == get(one, t, q[1], q[2])
                            g2 == get(two, t, q[1], q[2])
                        IN  /\ Within(g1.Answer, g2.Answer)
                            /\ Within(g1.Extra, g2.Extra)
                            /\ hist[k + 1].at = hist[k].at => g2 = g1

\* C20 witness: addMsg was called twice with a message that has records,
\* the clock having advanced in between, and an entry expires later for it
C20_Witness ==
    \E k \in DOMAIN hist :
        /\ Again(k)
        /\ hist[k].m.Answer # <<>>
        /\ hist[k + 1].at > hist[k].at
        /\ \E i \in DOMAIN hist[k].after :
              hist[k + 1].after[i].expires > hist[k].after[i].expires

----------------------------------------------------------------------------
(* Claims C21 to C30 *)

\* the two names differ at most in letter case and in the trailing dot
SameName(x, y) ==
    Fqdn([i \in DOMAIN x |-> Lower(x[i])]) = Fqdn([i \in DOMAIN y |-> Lower(y[i])])

\* the two records differ at most in the spelling of the owner name and in
\* the TTL
SameButSpelling(x, y) ==
    SameName(x.name, y.name) /\ x.rrtype = y.rrtype /\ x.rdata = y.rdata

\* C21: records that differ only in the letter case or the trailing dot of
\* the owner name share one entry: no two entries are such records, an
\* insert of such a record finds the entry, and get finds the entry for a
\* query name in any spelling.
C21_OneEntryAnySpelling ==
    /\ \A i, j \in DOMAIN rrs :
          SameButSpelling(rrs[i].rr, rrs[j].rr) => i = j
    /\ \A t \in CThreads :
          /\ cth[t].pc = "add_write" =>
                \A i \in DOMAIN rrs :
                    SameButSpelling(Head(cth[t].todo), rrs[i].rr) => cth[t].found = i
          /\ cth[t].pc = "get_unlock" =>
                \A i \in DOMAIN rrs :
                    (/\ SameName(cth[t].rawq, rrs[i].rr.name)
                     /\ TypeToString(rrs[i].rr.rrtype) = cth[t].qtype
                     /\ cth[t].now0 < rrs[i].expires)
                    => \E k \in DOMAIN cth[t].ans :
                          SameButSpelling(cth[t].ans[k], rrs[i].rr)

\* C21 witness: a get for "A" has returned the entry of "a.", and an insert
\* of a record of "A" has found the entry of "a."
C21_Witness ==
    \E t, u \in CThreads :
        /\ cth[t].pc = "got"
        /\ cth[t].rawq = <<"A">>
        /\ cth[t].ans # <<>>
        /\ cth[u].pc = "add_write"
        /\ Head(cth[u].todo).name = <<"A">>
        /\ cth[u].found # 0
        /\ rrs[cth[u].found].rr.name = <<"a", ".">>

\* the questions put to Resolve, one of them with a type string that
\* dns.StringToType does not know
UnknownQueries ==
    { << <<"a">>, "A" >>, << NameC, "A" >>, << NameC, "XYZ" >>, << NameA, "NS" >> }

NextUnknown ==
    \/ \E q \in UnknownQueries : Resolve(q[1], q[2])
    \/ RwcFirst \/ RwcRetryRet \/ RwcChaseRet \/ RwcBackfillRet
    \/ queryWithCache \/ QwcParent \/ QwcFanIn \/ QwcChaseRet
    \/ \E p \in Shuffles(IF At("qm", "start") THEN Len(Last(stack).ns) ELSE 0) :
          FanOutStart(p)
    \/ NsAddress \/ Exchange
    \/ Elapse

SpecUnknown == InitEngine /\ [][NextUnknown]_vars

\* Resolve i was asked for name with a type string that is not known
UnknownType(i, name) ==
    /\ eh.log[i].qname = name
    /\ StringToType(eh.log[i].qtype) = 0
    /\ eh.log[i].err = "nil"

\* C22, as claimed: Resolve("c.", "XYZ") returns what Resolve("c.", "A")
\* returns (C16) when every exchange is answered: the CNAME record of c.
\* and an A record of a.
C22_AsClaimed ==
    \A i \in DOMAIN eh.log :
        (UnknownType(i, NameC) /\ AllAnswered(i))
        => /\ InAnswer(i, TypeCNAME, NameC, <<NameA>>)
           /\ InAnswer(i, TypeA, NameA, <<>>)

\* C22 witness: Resolve("c.", "XYZ") has returned the CNAME record of c.
\* alone, having asked the server for the A records of c. and nothing else
C22_Witness ==
    \E i \in DOMAIN eh.log :
        /\ UnknownType(i, NameC) /\ AllAnswered(i)
        /\ AskedFor(i, NameC) /\ ~AskedFor(i, NameA)
        /\ Len(eh.log[i].msg.Answer) = 1
        /\ InAnswer(i, TypeCNAME, NameC, <<NameA>>)

\* Resolve i was asked for the A records of a name and returned no error
ResolvedA(i) == eh.log[i].qtype = "A" /\ eh.log[i].err = "nil"

\* C23, as claimed: the message of a successful Resolve(name, "A") has an
\* A record as the first record of its additional section.
C23_AsClaimed ==
    \A i \in DOMAIN eh.log :
        ResolvedA(i) =>
            /\ eh.log[i].msg.Extra # <<>>
            /\ eh.log[i].msg.Extra[1].rrtype = TypeA

\* C23 witness: a Resolve(name, "A") answered from the cache, without any
\* queryMultiple, has returned an A record in its answer and an empty
\* additional section
C23_Witness ==
    \E i \in DOMAIN eh.log :
        /\ ResolvedA(i)
        /\ eh.log[i].fan = 0
        /\ eh.log[i].msg.Extra = <<>>
        /\ \E k \in DOMAIN eh.log[i].msg.Answer :
              eh.log[i].msg.Answer[k].rrtype = TypeA

\* C24: a thread holds the cache lock exactly between the scan and the
\* write of addRR and between the scan and the unlock of get; it does not
\* hold it in the nested get for a target, and the holder can always go on
\* to release it.
C24_LockOnlyInScans ==
    /\ w \in CThreads \cup {"free"}
    /\ \A t \in CThreads :
          /\ w = t <=> cth[t].pc \in {"add_write", "get_unlock"}
          /\ w = t => ENABLED (AddWrite(t) \/ GetUnlock(t))

\* C24 witness: a get is about to take the lock for the nested get of a
\* target while the other thread holds the lock in addRR
C24_Witness ==
    \E t, u \in CThreads :
        /\ cth[t].pc = "glue_lock"
        /\ cth[u].pc = "add_write"
        /\ w = u

\* thread t is inside get, from its call to its return
InGet(t) ==
    cth[t].pc \in {"get_lock", "get_unlock", "glue_now", "glue_lock", "got"}

\* C25: no step of a get changes the entry list, a stored record or an
\* expiry: the call, the scan, the unlock, the nested gets and the return
\* all leave the cache as it is.
C25_GetLeavesCache ==
    [][ \A t \in CThreads :
           ((InGet(t) \/ InGet(t)') /\ cth'[t] # cth[t]) => rrs' = rrs ]_vars

\* C25 witness: a get has returned a record with a TTL smaller than the
\* TTL of the stored record
C25_Witness ==
    \E t \in CThreads :
        /\ cth[t].pc = "got"
        /\ \E k \in DOMAIN cth[t].ans : \E i \in DOMAIN rrs :
              /\ Identity(rrs[i].rr) = Identity(cth[t].ans[k])
              /\ cth[t].ans[k].ttl < rrs[i].rr.ttl

(* The head of queryWithCache under concurrent callers: the goroutine of
   Resolve and the fan-out tasks, whose querySingle calls queryWithCache
   for the address of a nameserver with the counter map of the Resolve *)

MaxCallers == 2
MaxInvocations == 6

Callers == 1..MaxCallers

CounterKeys == { Key(NameN, "A"), Key(<<".">>, "NS") }

RECURSIVE SumOver(_, _)
SumOver(f, S) ==
    IF S = {} THEN 0
    ELSE LET x == CHOOSE y \in S : TRUE IN f[x] + SumOver(f, S \ {x})

\* the callers are idle, the counter map of the Resolve is empty
InitCounter ==
    /\ CacheIdle
    /\ EngineIdle
    /\ qm = [pc |-> "idle", ns |-> <<>>, qtype |-> "", count |-> 0,
             answer |-> NoAnswer]
    /\ tasks = [t \in Callers |-> [pc |-> "idle", key |-> <<>>, res |-> "none"]]
    /\ ctx = [done |-> FALSE, done2 |-> FALSE]
    /\ qh = [recvd |-> <<>>, ret |-> NoRet, firedWaiting |-> FALSE]
    /\ crashed = FALSE

\* queryWithCache is called: the depth test
QwcCall(t, k, deep) ==
    /\ tasks[t].pc = "idle"
    /\ SumOver(eh.inv, DOMAIN eh.inv) < MaxInvocations
    /\ eh' = [eh EXCEPT !.inv = Bump(@, k)]
    /\ tasks' = [tasks EXCEPT ![t] =
                   IF deep THEN [pc |-> "idle", key |-> k, res |-> ErrMaxDepth]
                   ELSE [pc |-> "probe", key |-> k, res |-> "none"]]
    /\ UNCHANGED <<cvars, qm, ctx, qh, crashed, stack, rv, qs, qloc, resolver>>

\* r.cache.get(qname, qtype): a non-empty answer is returned
QwcProbe(t, hit) ==
    /\ tasks[t].pc = "probe"
    /\ tasks' = [tasks EXCEPT ![t].pc = IF hit THEN "idle" ELSE "lock",
                              ![t].res = IF hit THEN "hit" ELSE "none"]
    /\ UNCHANGED <<cvars, qm, ctx, qh, crashed, evars>>

\* mutant: the lock is taken although another caller holds it
QlocLock_NoWait(t) ==
    /\ tasks[t].pc = "lock"
    /\ qloc' = t
    /\ tasks' = [tasks EXCEPT ![t].pc = "count"]
    /\ UNCHANGED <<cvars, qm, ctx, qh, crashed, stack, rv, qs, eh, resolver>>

\* qloc.Lock()
QlocLock(t) ==
    /\ tasks[t].pc = "lock"
    /\ qloc = 0
    /\ qloc' = t
    /\ tasks' = [tasks EXCEPT ![t].pc = "count"]
    /\ UNCHANGED <<cvars, qm, ctx, qh, crashed, stack, rv, qs, eh, resolver>>

\* mutant: every task counts in a map of its own
QwcCount_PerTask(t) ==
    LET k == Key(<<ToString(t)>> \o tasks[t].key[1], tasks[t].key[2])
        loop == LoopDetected(Count(qs, k) + 1) IN
    /\ tasks[t].pc = "count"
    /\ qs' = Bump(qs, k)
    /\ eh' = IF loop THEN eh ELSE [eh EXCEPT !.passed = Bump(@, tasks[t].key)]
    /\ tasks' = [tasks EXCEPT ![t].pc = "unlock",
                              ![t].res = IF loop THEN ErrQueryLoop ELSE "pass"]
    /\ UNCHANGED <<cvars, qm, ctx, qh, crashed, stack, rv, qloc, resolver>>

\* mutant: the counters are kept in one map for all callers
QwcCount_OneMap(t) ==
    LET k == <<0, tasks[t].key[2]>>
        loop == LoopDetected(Count(qs, k) + 1) IN
    /\ tasks[t].pc = "count"
    /\ qs' = Bump(qs, k)
    /\ eh' = IF loop THEN eh ELSE [eh EXCEPT !.passed = Bump(@, tasks[t].key)]
    /\ tasks' = [tasks EXCEPT ![t].pc = "unlock",
                              ![t].res = IF loop THEN ErrQueryLoop ELSE "pass"]
    /\ UNCHANGED <<cvars, qm, ctx, qh, crashed, stack, rv, qloc, resolver>>

\* the counter of the pair is set to 1 or incremented, and tested
QwcCount(t) ==
    LET k == tasks[t].key
        loop == LoopDetected(Count(qs, k) + 1) IN
    /\ tasks[t].pc = "count"
    /\ qs' = Bump(qs, k)
    /\ eh' = IF loop THEN eh ELSE [eh EXCEPT !.passed = Bump(@, k)]
    /\ tasks' = [tasks EXCEPT ![t].pc = "unlock",
                              ![t].res = IF loop THEN ErrQueryLoop ELSE "pass"]
    /\ UNCHANGED <<cvars, qm, ctx, qh, crashed, stack, rv, qloc, resolver>>

\* qloc.Unlock(); ErrQueryLoop is returned, or the invocation goes on
QlocUnlock(t) ==
    /\ tasks[t].pc = "unlock"
    /\ qloc' = 0
    /\ tasks' = [tasks EXCEPT ![t].pc = "idle"]
    /\ UNCHANGED <<cvars, qm, ctx, qh, crashed, stack, rv, qs, eh, resolver>>

NextCounter ==
    \E t \in Callers :
        \/ \E k \in CounterKeys : \E deep \in BOOLEAN : QwcCall(t, k, deep)
        \/ \E hit \in BOOLEAN : QwcProbe(t, hit)
        \/ QlocLock(t)
        \/ QwcCount(t)
        \/ QlocUnlock(t)

SpecCounter == InitCounter /\ [][NextCounter]_vars

\* C26: under every interleaving of the callers at most LoopLimit
\* invocations for a pair get past the loop counter, every cache-missing
\* invocation after these returns ErrQueryLoop, and an invocation answered
\* by the cache leaves the counters as they are.
C26_CounterUnderInterleaving ==
    /\ [](\A k \in DOMAIN qs :
            /\ Count(eh.passed, k) <= LoopLimit
            /\ Count(eh.passed, k) = IF qs[k] < LoopLimit THEN qs[k] ELSE LoopLimit)
    /\ [](\A t \in Callers :
            tasks[t].pc = "unlock" =>
                (tasks[t].res = ErrQueryLoop <=> qs[tasks[t].key] > LoopLimit))
    /\ [][\A t \in Callers :
            (tasks[t].pc = "probe" /\ tasks'[t].res = "hit") => qs' = qs]_vars

\* C26 witness: the sixth cache-missing invocation for a pair is about to
\* return ErrQueryLoop, four having passed, each caller having made some,
\* and an invocation for the pair having been answered by the cache
C26_Witness ==
    \E t \in Callers : \E u \in Callers \ {t} :
        LET k == tasks[t].key IN
        /\ tasks[t].pc = "unlock" /\ tasks[t].res = ErrQueryLoop
        /\ qs[k] = LoopLimit + 1
        /\ eh.passed[k] = LoopLimit
        /\ eh.inv[k] > qs[k]
        /\ tasks[u].key = k /\ tasks[u].res = "pass"


\* a retry of the empty-answer loop has just been called
RetryCalled ==
    /\ Len(stack) = 2
    /\ stack[1].pc = "retry"
    /\ stack[2].pc = "enter"

\* C27: after a queryWithCache for the pair of the Resolve has returned
\* ErrQueryLoop (its counter is above the limit), the empty-answer loop of
\* resolveWithContext calls queryWithCache no more.  As claimed; the code
\* tests the error of the first call, which is nil inside the loop.
C27_AsClaimed ==
    RetryCalled => Count(qs, Key(stack[1].qname, stack[1].qtype)) <= LoopLimit

\* a retry is called at the time the pair's counter stands at the limit
C27_Witness ==
    RetryCalled /\ Count(qs, Key(stack[1].qname, stack[1].qtype)) = LoopLimit

\* a step of the CNAME loop of resolveWithContext has just been called
ChaseCalled ==
    /\ Len(stack) = 2
    /\ stack[1].pc = "chase"
    /\ stack[2].pc = "enter"

\* C28: once a step of the CNAME loop of resolveWithContext has added no RR
\* to the answer, no further step of the loop is called in that Resolve.
\* As claimed; the loop of the code has no such exit.
C28_AsClaimed == ChaseCalled => ~eh.idle

\* a Resolve has returned after a step of its CNAME loop added nothing
C28_Witness == Returned /\ eh.idle

\* the invocations of queryWithCache on the stack, outermost first
Nested(st) == SelectSeq(st, LAMBDA f : f.fn = "qwc")

\* the invocation about to run was called with a depth above MaxDepth
TooDeep == At("qwc", "enter") /\ Last(stack).depth > MaxDepth

\* the part of C29 that does not hold: no invocation of queryWithCache has
\* a depth above MaxDepth+1.  The address lookup of querySingle is made two
\* levels below the invocation that fans out.
C29_AsClaimed == \A i \in DOMAIN stack :
    stack[i].fn = "qwc" => stack[i].depth <= MaxDepth + 1

\* C29: queryWithCache called with depth > MaxDepth returns ErrMaxDepth and
\* touches neither the cache nor the loop counters nor the network; an
\* invocation nested in another has a strictly greater depth than the one
\* around it had when it made the call; no invocation has a depth above
\* MaxDepth+2.
C29_DepthBudget ==
    /\ [][TooDeep => /\ rv' = [msg |-> NilMsg, err |-> ErrMaxDepth]
                     /\ stack' = Front(stack)
                     /\ rrs' = rrs /\ qs' = qs
                     /\ eh'.passed = eh.passed /\ eh'.netq = eh.netq
                     /\ eh'.fan = eh.fan /\ eh'.seen = eh.seen]_vars
    /\ [][(Nested(stack) # <<>> /\ Len(Nested(stack')) > Len(Nested(stack)))
            => Last(Nested(stack')).depth > Last(Nested(stack)).depth]_vars
    /\ [](\A i \in DOMAIN stack :
            stack[i].fn = "qwc" => stack[i].depth <= MaxDepth + 2)

\* the address lookup of a nameserver has come back with ErrMaxDepth
C29_Witness ==
    /\ At("qm", "addr")
    /\ rv.err = ErrMaxDepth
    /\ Len(Nested(stack)) > 1

\* C30: every Resolve returns in the end.  As claimed, in the form of what
\* it needs in every state: a Resolve that has not returned is still
\* running.  The nil dereference of querySingleChan ends the process in the
\* middle of a Resolve for an NS question.
C30_AsClaimed == stack # <<>> => ~crashed

\* a Resolve for an NS question that did return
C30_Witness == Returned /\ LastResolve.qtype = "NS" /\ ~crashed

(* Claims C31 to C39 *)

(* the resolver after the root hints have run out *)

\* the cache of newCache once the TTL of the hints has passed
InitLate ==
    /\ rrs = newCache
    /\ now = HintTTL * TicksPerSec
    /\ w = "free"
    /\ cth = [t \in CThreads |-> CIdle]
    /\ hist = <<>>
    /\ ops = [adds |-> 0, gets |-> 0]
    /\ QMIdle
    /\ EngineIdle

\* Resolve and the steps of the engine that a cache without nameservers
\* lets happen
NextLate ==
    \/ \E q \in { << <<".">>, "NS" >>, << <<".">>, "A" >>, << NameA, "A" >>,
                  << <<"x", ".", "a">>, "A" >>, << NameC, "NS" >> } :
          Resolve(q[1], q[2])
    \/ RwcFirst
    \/ queryWithCache
    \/ QwcParent

SpecLate == InitLate /\ [][NextLate]_vars

\* the name without its leftmost label
Stripped(name) ==
    LET d == CHOOSE i \in DOMAIN name :
                 name[i] = "." /\ \A j \in 1..(i - 1) : name[j] # "." IN
    IF d = Len(name) THEN <<".">> ELSE SubSeq(name, d + 1, Len(name))

\* the invocation about to run misses the cache for its type and for NS
\* and is let through by the depth test and by the loop counter
WalksUp ==
    /\ At("qwc", "enter")
    /\ LET f == Last(stack) IN
       /\ f.depth <= MaxDepth
       /\ get(rrs, now, f.qname, f.qtype).Answer = <<>>
       /\ get(rrs, now, f.qname, "NS").Answer = <<>>
       /\ Count(qs, Key(f.qname, f.qtype)) < LoopLimit

\* C31: queryWithCache for the root name that finds neither the asked type
\* nor NS in the cache returns ErrMaxParent and asks no server; for any
\* other name without cached NS it calls queryWithCache for the name
\* without its leftmost label, type NS, at depth + 1.
C31_WalkStopsAtRoot ==
    [][WalksUp =>
         IF Last(stack).qname = <<".">>
         THEN /\ stack' = Front(stack)
              /\ rv' = [msg |-> NilMsg, err |-> ErrMaxParent]
              /\ eh'.netq = eh.netq /\ eh'.fan = eh.fan
         ELSE /\ Len(stack') = Len(stack) + 1
              /\ Front(Front(stack')) = Front(stack)
              /\ Last(stack').fn = "qwc" /\ Last(stack').pc = "enter"
              /\ Last(stack').qname = Stripped(Last(stack).qname)
              /\ Last(stack').qtype = "NS"
              /\ Last(stack').depth = Last(stack).depth + 1
              /\ eh'.netq = eh.netq /\ eh'.fan = eh.fan]_vars

\* the walk from x.a. has come to the root and got ErrMaxParent there
C31_Witness ==
    /\ At("qwc", "parent")
    /\ Last(stack).qname = NameA
    /\ Len(stack) = 3
    /\ rv.err = ErrMaxParent
    /\ eh.netq = 0

(* the resolver asked for a name two labels below the root *)

\* one Resolve, of x.p. or of the root, and the steps of the engine it
\* takes: the nameservers of p. are asked of the root
NextZone ==
    \/ \E q \in { <<"x", ".", "p", ".">>, <<".">> } : eh.n = 0 /\ Resolve(q, "A")
    \/ RwcFirst \/ RwcRetryRet
    \/ queryWithCache \/ QwcParent \/ QwcFanIn
    \/ \E p \in Shuffles(IF At("qm", "start") THEN Len(Last(stack).ns) ELSE 0) :
          FanOutStart(p)
    \/ NsAddress \/ Exchange
    \/ Elapse

SpecZone == InitEngine /\ [][NextZone]_vars

\* the NS and SOA records of a record set
Delegating(set) == SelectSeq(set, LAMBDA rr : rr.rrtype \in {TypeNS, TypeSOA})

\* the NS targets and SOA MNAMEs of a record set
HostsOf(set) == {Delegating(set)[k].rdata[1] : k \in DOMAIN Delegating(set)}

\* this step ends in ErrNoNS for the record set, or fans out over its hosts
NoNSOrHosts(set) ==
    IF Delegating(set) = <<>>
    THEN /\ stack' = Front(stack)
         /\ rv' = [msg |-> NilMsg, err |-> ErrNoNS]
         /\ eh'.fan = eh.fan /\ eh'.netq = eh.netq
    ELSE /\ Len(stack') = Len(stack) + 1
         /\ Last(stack').fn = "qm" /\ Last(stack').pc = "start"
         /\ Len(Last(stack').ns) = Len(Delegating(set))
         /\ {Last(stack').ns[k] : k \in DOMAIN Last(stack').ns} = HostsOf(set)

\* the invocation about to run finds the NS set of its name in the cache
HasNS ==
    /\ At("qwc", "enter")
    /\ LET f == Last(stack) IN
       /\ f.depth <= MaxDepth
       /\ get(rrs, now, f.qname, f.qtype).Answer = <<>>
       /\ get(rrs, now, f.qname, "NS").Answer # <<>>
       /\ Count(qs, Key(f.qname, f.qtype)) < LoopLimit

\* C32: the record set of a step is the cached NS answer, or the answer of
\* the parent's reply, or its authority section if that answer is empty.
\* If it holds neither an NS nor an SOA record queryWithCache returns
\* ErrNoNS and starts no queryMultiple; otherwise queryMultiple is given
\* the NS targets and SOA MNAMEs of the set.
C32_NoNSOrHosts ==
    /\ [][HasNS => NoNSOrHosts(get(rrs, now, Last(stack).qname, "NS").Answer)]_vars
    /\ [][(At("qwc", "parent") /\ rv.err = "nil")
            => NoNSOrHosts(IF rv.msg.Answer = <<>> THEN rv.msg.Ns
                           ELSE rv.msg.Answer)]_vars

\* a retry has ended in ErrNoNS on an answer without NS or SOA, after an
\* earlier one had put the question to the host of an SOA or NS record
C32_Witness ==
    /\ At("rwc", "retry")
    /\ rv.err = ErrNoNS
    /\ \E x \in eh.seen : x.qname = <<"x", ".", "p", ".">>

(* queryMultiple called with given hosts *)

\* the steps of queryMultiple and of the lookups its tasks make
NextSingle ==
    \/ \E p \in Shuffles(IF At("qm", "start") THEN Len(Last(stack).ns) ELSE 0) :
          FanOutStart(p)
    \/ NsAddress \/ Exchange
    \/ queryWithCache \/ QwcParent \/ QwcFanIn
    \/ Elapse

\* queryMultiple(ctx, ns, qname, qtype, qs, 1) on a new resolver, the hosts
\* given by name or as addresses
InitSingle ==
    /\ CacheIdle /\ QMIdle
    /\ rv = [msg |-> NilMsg, err |-> "nil"] /\ qs = <<>> /\ qloc = 0
    /\ resolver = [debug |-> FALSE, m |-> 0]
    /\ eh = [n |-> 0, inv |-> <<>>, passed |-> <<>>, fan |-> 0, netq |-> 0,
             seen |-> {}, idle |-> FALSE, prev |-> <<>>, log |-> <<>>]
    /\ \E ns \in { <<IP1>>, <<NameN>>, <<NameF>>, <<IP1, NameF>>, <<NameF, IPR>> },
          qtype \in {"A", "NS"} :
          stack = << [Frame("qm", "start", NameA, qtype, 1) EXCEPT !.ns = ns] >>

SpecSingle == InitSingle /\ [][NextSingle]_vars

\* the host the running task of queryMultiple puts its question to
Host(f) == f.ns[f.i]

\* the lookup of the host's address has come back with an error or
\* without an A record
LookupFailed ==
    /\ At("qm", "addr")
    /\ rv.err # "nil" \/ \A k \in DOMAIN rv.msg.Answer : rv.msg.Answer[k].rrtype # TypeA

\* C33: when the recursive A lookup of a nameserver given by name fails or
\* brings no A record, the task asks no server: no exchange is made for
\* its question; and a nameserver given as an IP literal is never looked
\* up through the engine.
C33_NoAddressNoExchange ==
    /\ [][LookupFailed =>
            /\ eh'.netq = eh.netq /\ eh'.seen = eh.seen
            /\ ~(/\ Len(stack') = Len(stack)
                 /\ Last(stack').pc = "exchange"
                 /\ Last(stack').i = Last(stack).i
                 /\ Last(stack').todo = Last(stack).todo)]_vars
    /\ [](\A k \in DOMAIN stack :
            (stack[k].fn = "qm" /\ stack[k].pc = "addr")
               => Host(stack[k]) \notin {IP1, IP2, IPR})

\* queryMultiple has come back without any exchange made, the lookup of
\* f. having brought no A record
C33_Witness ==
    /\ stack = <<>>
    /\ rv.err = "ErrNoAddress"
    /\ eh.fan > 0
    /\ \A x \in eh.seen : x.qname # NameA

\* a task for a host given as an address has put its question
C33_LiteralAsked ==
    /\ stack = <<>>
    /\ eh.inv = <<>>
    /\ eh.netq > 0

(* queryMultiple, its tasks and the cache *)

\* mutant: the reply of any task that has one is put into the cache
QwcInsert_AnyTask ==
    /\ ~crashed
    /\ qm.pc = "returned"
    /\ qh.ret.kind = "reply" /\ qh.ret.err = "nil"
    /\ \E t \in DOMAIN tasks :
          /\ tasks[t].answer.err = "nil" /\ tasks[t].answer.msg # "nil"
          /\ rrs' = addMsg(rrs, now,
                Msg(<< IF qm.qtype = "NS"
                       THEN RR(NameA, TypeNS, ReplyTTL, << <<tasks[t].answer.msg, ".">> >>)
                       ELSE RR(NameA, TypeA, ReplyTTL, << <<tasks[t].answer.msg>> >>) >>,
                    <<>>, <<>>))
    /\ qm' = [qm EXCEPT !.pc = "cached"]
    /\ UNCHANGED <<now, w, cth, hist, ops, tasks, ctx, qh, crashed, evars>>

\* queryWithCache after queryMultiple returned a reply: addMsg(rmsg).  The
\* reply of server s to the question for a. names s in its rdata.
QwcInsert ==
    /\ ~crashed
    /\ qm.pc = "returned"
    /\ qh.ret.kind = "reply" /\ qh.ret.err = "nil"
    /\ rrs' = addMsg(rrs, now,
          Msg(<< IF qm.qtype = "NS"
                 THEN RR(NameA, TypeNS, ReplyTTL, << <<qh.ret.msg, ".">> >>)
                 ELSE RR(NameA, TypeA, ReplyTTL, << <<qh.ret.msg>> >>) >>,
              <<>>, <<>>))
    /\ qm' = [qm EXCEPT !.pc = "cached"]
    /\ UNCHANGED <<now, w, cth, hist, ops, tasks, ctx, qh, crashed, evars>>

\* the queryWithCache that querySingle of task t calls for the address of
\* its nameserver puts the reply to that question into the cache
NsLookup(t) ==
    /\ ~crashed
    /\ t \in DOMAIN tasks
    /\ tasks[t].pc = "query"
    /\ rrs' = addMsg(rrs, now,
          Msg(<< RR(<<tasks[t].ns, ".">>, TypeA, ReplyTTL, <<IP1>>) >>, <<>>, <<>>))
    /\ UNCHANGED <<now, w, cth, hist, ops, qvars, evars>>

NextQMCache ==
    \/ NextQM
    \/ QwcInsert
    \/ \E t \in 1..MaxNameservers : NsLookup(t)

SpecQMCache == InitQM /\ [][NextQMCache]_vars

\* the cache entries that answer the question for a.
ForQuestion == {k \in DOMAIN rrs : rrs[k].rr.name = NameA}

\* C34: the cache holds no reply to the question of queryMultiple but the
\* one queryMultiple returned, put there by queryWithCache after the
\* return; the tasks, the late and the losing ones too, put no reply to
\* the question into the cache.
C34_OnlyReturnedCached ==
    /\ [](\A k \in ForQuestion :
            /\ qm.pc = "cached"
            /\ rrs[k].rr.rdata[1] \in {<<qh.ret.msg>>, <<qh.ret.msg, ".">>})
    /\ [](Cardinality(ForQuestion) <= 1)
    /\ [][\A t \in DOMAIN tasks :
            tasks'[t] # tasks[t] => ForQuestion' = ForQuestion]_vars

\* the returned reply is in the cache; a task that lost has a reply of
\* another server and has ended, and the lookup of a late task has put
\* the address of its nameserver into the cache
C34_Witness ==
    /\ qm.pc = "cached"
    /\ ForQuestion # {}
    /\ \E t \in DOMAIN tasks :
          /\ tasks[t].pc = "done"
          /\ tasks[t].answer.err = "nil"
          /\ tasks[t].answer.msg # qh.ret.msg
    /\ Len(rrs) > Len(newCache) + 1

\* caller t is between qloc.Lock() and qloc.Unlock()
InQloc(t) == tasks[t].pc \in {"count", "unlock"}

\* C35: the counter map is read and written only by a caller that holds
\* qloc, and no two callers are between Lock and Unlock at the same time.
C35_CountersUnderQloc ==
    /\ [](\A t \in Callers : InQloc(t) <=> qloc = t)
    /\ [](\A t, u \in Callers : (InQloc(t) /\ InQloc(u)) => t = u)
    /\ [][qs' # qs => \E t \in Callers :
                         /\ qloc = t /\ tasks[t].pc = "count"
                         /\ \A u \in Callers \ {t} : tasks'[u] = tasks[u]]_vars

\* one caller has written the counter under the lock while the other
\* waits for the lock
C35_Witness ==
    \E t, u \in Callers :
        /\ tasks[t].pc = "unlock" /\ qloc = t
        /\ tasks[u].pc = "lock"
        /\ qs # <<>>

(* two calls of Resolve at the same time *)

\* every caller is a Resolve of its own: the map qs that resolveWithContext
\* makes is told apart by the caller in the first component of its keys
NextLocal ==
    \E t \in Callers :
        \/ \E k \in CounterKeys : \E deep \in BOOLEAN : QwcCall(t, <<t, k>>, deep)
        \/ \E hit \in BOOLEAN : QwcProbe(t, hit)
        \/ QlocLock(t)
        \/ QwcCount(t)
        \/ QlocUnlock(t)

SpecLocal == InitCounter /\ [][NextLocal]_vars

\* the counter of pair p in the map of Resolve t
Own(f, t, p) == IF <<t, p>> \in DOMAIN f THEN f[<<t, p>>] ELSE 0

\* C36: every Resolve has a counter map of its own, empty at its start: a
\* step of one Resolve leaves the counters of every other as they are, and
\* an invocation returns ErrQueryLoop exactly when the counter of its pair
\* in the map of its own Resolve is above the limit, whatever the other
\* Resolves have counted, at the same time or before.
C36_CountersLocal ==
    /\ [][\A t \in Callers : tasks'[t] # tasks[t] =>
            \A u \in Callers \ {t} : \A p \in CounterKeys :
                Own(qs', u, p) = Own(qs, u, p)]_vars
    /\ [](\A t \in Callers :
            tasks[t].pc = "unlock" =>
               /\ tasks[t].key[1] = t
               /\ tasks[t].res = ErrQueryLoop <=> Own(qs, t, tasks[t].key[2]) > LoopLimit)
    /\ [](\A t \in Callers : \A p \in CounterKeys :
            Own(eh.passed, t, p) =
               IF Own(qs, t, p) < LoopLimit THEN Own(qs, t, p) ELSE LoopLimit)

\* one Resolve has run into ErrQueryLoop for a pair, and the first
\* invocation of another Resolve for the same pair is let through
C36_Witness ==
    \E t, u \in Callers : \E p \in CounterKeys :
        /\ Own(qs, t, p) > LoopLimit
        /\ tasks[u].pc = "unlock" /\ tasks[u].res = "pass"
        /\ tasks[u].key = <<u, p>>
        /\ Own(qs, u, p) = 1

(***************************************************************************)
(* C37: the debug flag of the Resolver and its mutex m                     *)
(***************************************************************************)

\* no caller is inside Debug(), no resolution has read the flag yet
InitDebug ==
    /\ CacheIdle
    /\ EngineIdle
    /\ qm = [pc |-> "idle", ns |-> <<>>, qtype |-> "", count |-> 0,
             answer |-> NoAnswer]
    /\ tasks = [t \in Callers |-> [pc |-> "idle", enable |-> FALSE, site |-> 0,
                                   saw |-> FALSE, raced |-> FALSE]]
    /\ ctx = [done |-> FALSE, done2 |-> FALSE]
    /\ qh = [recvd |-> <<>>, ret |-> NoRet, firedWaiting |-> FALSE]
    /\ crashed = FALSE

\* Debug(enable): r.m.Lock()
DebugLock(t, enable) ==
    /\ tasks[t].pc = "idle"
    /\ resolver.m = 0
    /\ resolver' = [resolver EXCEPT !.m = t]
    /\ tasks' = [tasks EXCEPT ![t].pc = "write", ![t].enable = enable]
    /\ UNCHANGED <<cvars, qm, ctx, qh, crashed, stack, rv, qs, eh, qloc>>

\* Debug(enable): r.debug = enable
DebugWrite(t) ==
    /\ tasks[t].pc = "write"
    /\ resolver' = [resolver EXCEPT !.debug = tasks[t].enable]
    /\ tasks' = [tasks EXCEPT ![t].pc = "unlock"]
    /\ UNCHANGED <<cvars, qm, ctx, qh, crashed, stack, rv, qs, eh, qloc>>

\* Debug(enable): the deferred r.m.Unlock()
DebugUnlock(t) ==
    /\ tasks[t].pc = "unlock"
    /\ resolver' = [resolver EXCEPT !.m = 0]
    /\ tasks' = [tasks EXCEPT ![t].pc = "idle"]
    /\ UNCHANGED <<cvars, qm, ctx, qh, crashed, stack, rv, qs, eh, qloc>>

\* `if r.debug` of a running resolution, at the source line `site`: line 74
\* in resolveWithContext, then 119 in queryWithCache, then 128 on a cache
\* hit or 258 or 264 in queryMultiple.  The read takes no lock; while another
\* caller is inside Debug() it races with the write and yields either value.
ReadDebug(t, site, v) ==
    LET at == IF tasks[t].pc = "idle" THEN 0 ELSE tasks[t].site
        inDebug == \E u \in Callers \ {t} : tasks[u].pc \in {"write", "unlock"}
        racing == \E u \in Callers \ {t} : tasks[u].pc = "write" IN
    /\ tasks[t].pc \in {"idle", "resolving"}
    /\ site \in (CASE at = 0 -> {74}
                   [] at = 74 -> {119}
                   [] at = 119 -> {128, 258, 264}
                   [] OTHER -> {})
    /\ v \in (IF racing THEN BOOLEAN ELSE {resolver.debug})
    /\ tasks' = [tasks EXCEPT ![t] =
                   [pc |-> IF site \in {128, 258, 264} THEN "idle"
                           ELSE "resolving",
                    enable |-> @.enable, site |-> site, saw |-> v,
                    raced |-> inDebug]]
    /\ UNCHANGED <<cvars, qm, ctx, qh, crashed, evars>>

NextDebug ==
    \E t \in Callers :
        \/ \E enable \in BOOLEAN : DebugLock(t, enable)
        \/ DebugWrite(t)
        \/ DebugUnlock(t)
        \/ \E site \in {74, 119, 128, 258, 264} : \E v \in BOOLEAN :
               ReadDebug(t, site, v)

SpecDebug == InitDebug /\ [][NextDebug]_vars

\* C37: no resolution reads the debug flag while another caller is inside
\* Debug(), between r.m.Lock() and r.m.Unlock(): every read is guarded by m
C37_AsClaimed ==
    \A t \in Callers : tasks[t].site # 0 => ~tasks[t].raced

\* a resolution has read the flag while another caller held m inside Debug()
C37_Witness ==
    \E t \in Callers : \E u \in Callers \ {t} :
        /\ tasks[t].site # 0 /\ tasks[t].raced
        /\ resolver.m = u

(***************************************************************************)
(* C38: the names inside the cache entries                                 *)
(***************************************************************************)

\* the domain names in the rdata of a record
RdataNames(rr) ==
    CASE rr.rrtype \in {TypeNS, TypeCNAME} -> {rr.rdata[1]}
      [] rr.rrtype = TypeMX -> {rr.rdata[2]}
      [] OTHER -> {}

\* the record without its TTL, every name of it lowercased
Folded(rr) ==
    LET low == [rr EXCEPT !.name = toLowerFQDN(rr.name)] IN
    WithoutTTL(CASE rr.rrtype \in {TypeNS, TypeCNAME} ->
                      [low EXCEPT !.rdata = <<toLowerFQDN(rr.rdata[1])>>]
                 [] rr.rrtype = TypeMX ->
                      [low EXCEPT !.rdata[2] = toLowerFQDN(rr.rdata[2])]
                 [] OTHER -> low)

\* C38: every name stored in a cache entry, the owner and the names in the
\* rdata (NS target, CNAME target, MX exchange), is lowercase and fully
\* qualified, and no two entries differ only in the letter case of a name
C38_AsClaimed ==
    /\ \A i \in DOMAIN rrs :
          /\ toLowerFQDN(rrs[i].rr.name) = rrs[i].rr.name
          /\ \A n \in RdataNames(rrs[i].rr) : toLowerFQDN(n) = n
    /\ \A i, j \in DOMAIN rrs :
          i # j => Folded(rrs[i].rr) # Folded(rrs[j].rr)

\* the cache holds two CNAME entries of one owner whose targets differ in
\* letter case only
C38_Witness ==
    \E i, j \in DOMAIN rrs :
        /\ i # j
        /\ rrs[i].rr.rrtype = TypeCNAME /\ rrs[j].rr.rrtype = TypeCNAME
        /\ rrs[i].rr.rdata # rrs[j].rr.rdata
        /\ Folded(rrs[i].rr) = Folded(rrs[j].rr)

(***************************************************************************)
(* C39: the tasks of one Resolve and its counter map                       *)
(***************************************************************************)

\* the tasks that look up the address of their nameserver at once: a
\* queryMultiple inside a task of a queryMultiple runs up to MaxNameservers
\* times MaxNameservers of them
MaxSiblings == 5

Siblings == 1..MaxSiblings

\* the zone the nameservers of the tasks lie in: its NS set is not cached
SharedKey == Key(<<"q", ".">>, "NS")

\* the tasks have been started with the map qs of their Resolve, still empty
\* for the shared pair
InitSibling ==
    /\ CacheIdle
    /\ EngineIdle
    /\ qm = [pc |-> "idle", ns |-> <<>>, qtype |-> "", count |-> 0,
             answer |-> NoAnswer]
    /\ tasks = [t \in Siblings |-> [pc |-> "idle", key |-> <<>>, res |-> "none"]]
    /\ ctx = [done |-> FALSE, done2 |-> FALSE]
    /\ qh = [recvd |-> <<>>, ret |-> NoRet, firedWaiting |-> FALSE]
    /\ crashed = FALSE

\* every task walks up from its nameserver to the shared zone once: its
\* queryWithCache(q., NS, depth+1, qs) with the map of the Resolve
NextSibling ==
    \E t \in Siblings :
        \/ \E deep \in BOOLEAN :
              tasks[t].res = "none" /\ QwcCall(t, SharedKey, deep)
        \/ \E hit \in BOOLEAN : QwcProbe(t, hit)
        \/ QlocLock(t)
        \/ QwcCount(t)
        \/ QlocUnlock(t)

SpecSibling == InitSibling /\ [][NextSibling]_vars

\* the tasks whose invocation for the shared pair has missed the cache and
\* has been counted
Counted == { t \in Siblings : tasks[t].res \in {"pass", ErrQueryLoop} }

\* the tasks whose invocation has returned ErrQueryLoop
Looped == { t \in Siblings : tasks[t].res = ErrQueryLoop }

\* the entries of the shared pair made in the call chain of task t
EntriesOf(t) == IF tasks[t].key = SharedKey THEN 1 ELSE 0

\* C39 as stated: a task gets ErrQueryLoop for a pair only when its own call
\* chain has entered the pair more than 4 times; the entries of its sibling
\* tasks do not count
C39_AsClaimed ==
    \A t \in Siblings : tasks[t].res = ErrQueryLoop => EntriesOf(t) > LoopLimit

\* C39: the tasks of one Resolve count in one map: of the invocations for a
\* pair that miss the cache, whichever task makes them, the first 4 pass and
\* every further one returns ErrQueryLoop
C39_SharedCounter ==
    /\ Cardinality(Looped) =
          (IF Cardinality(Counted) > LoopLimit
           THEN Cardinality(Counted) - LoopLimit ELSE 0)
    /\ Count(qs, SharedKey) = Cardinality(Counted)
    /\ Count(eh.passed, SharedKey) = Cardinality(Counted \ Looped)

\* five tasks have entered the shared pair once each, and the fifth has
\* been given ErrQueryLoop
C39_Witness ==
    /\ Cardinality(Counted) = LoopLimit + 1
    /\ Cardinality(Looped) = 1
    /\ \A t \in Siblings : EntriesOf(t) = 1
=============================================================================
